---- MODULE Spec2Model ----
(***************************************************************************)
(* Hexagonal Chain: the hexagonal coordinate arithmetic, the HexaProof     *)
(* header validation pipeline, batch verification, parent state           *)
(* reconciliation and the hex mesh peer protocol, as state machines.       *)
(***************************************************************************)
EXTENDS Integers, Sequences, FiniteSets, TLC

VARIABLES
    \* header validation: the ledger, the engine configuration, the clock,
    \* the candidate header, the entry point called, the position of the
    \* pipeline, its verdict, the ledger reads made and the stages run
    ledger, config, now, hdr, entry, vpc, verdict, lookups, trace,
    \* coordinate arithmetic: the receiver, the argument, the operation
    \* applied and its result
    ca, cb, cop, cres,
    \* batch verification: the headers, the loop index and position of the
    \* worker goroutine, the error it holds, the results channel (buffer and
    \* closed flag), the abort channel, and what the caller has received
    batch, bi, wpc, werr, results, closed, aborted, received,
    \* state transitions: the state database, the block and the outcome
    stateOf, sblock, sres,
    \* hex mesh protocol: the connections offered to AddPeer (one HexPeer
    \* each), the peer table, the request tables and response channels, the
    \* wall clock, the ticker channel, quitCh and the heartbeat goroutine
    conns, peers, reqs, clock, tick, quit, hb,
    \* proof hashing: one HexaProof value, the operation last applied to it
    \* and what the last call of Hash returned
    hp, pop, pres,
    \* header conversion: the HexHeader and the header ToEthHeader returned
    hexh, ethh,
    \* inbound queues: the block and header channels, which handlers are registered, the inbound messages still to come, and the drops logged
    blockCh, headerCh, handlers, budget, dropped,
    \* node configuration (package config): the Config value, the constructor it came from, and what Validate returned for it
    nodecfg, origin, verr,
    \* mesh tasks at statement level: hmp.localPosition, the peer-table lock, a broadcast in progress, each peer's neighbor-update handler and a SetLocalPosition call
    localPos, peersMu, bc, nu, slp

verifyVars == <<ledger, config, now, hdr, entry, vpc, verdict, lookups, trace>>
coordVars == <<ca, cb, cop, cres>>
batchVars == <<batch, bi, wpc, werr, results, closed, aborted, received>>
stateVars == <<stateOf, sblock, sres>>
netVars == <<conns, peers, reqs, clock, tick, quit, hb>>
proofVars == <<hp, pop, pres>>
convertVars == <<hexh, ethh>>
inboxVars == <<blockCh, headerCh, handlers, budget, dropped>>
nodeVars == <<nodecfg, origin, verr>>
meshVars == <<localPos, peersMu, bc, nu, slp>>
vars == <<verifyVars, coordVars, batchVars, stateVars, netVars, proofVars, convertVars, inboxVars, nodeVars, meshVars>>

\* what the actions of one component leave alone
exceptVerify == <<coordVars, batchVars, stateVars, netVars, proofVars, convertVars, inboxVars, nodeVars, meshVars>>
exceptCoord == <<verifyVars, batchVars, stateVars, netVars, proofVars, convertVars, inboxVars, nodeVars, meshVars>>
exceptBatch == <<verifyVars, coordVars, stateVars, netVars, proofVars, convertVars, inboxVars, nodeVars, meshVars>>
exceptState == <<verifyVars, coordVars, batchVars, netVars, proofVars, convertVars, inboxVars, nodeVars, meshVars>>
exceptNet == <<verifyVars, coordVars, batchVars, stateVars, proofVars, convertVars, inboxVars, nodeVars, meshVars>>
exceptProof == <<verifyVars, coordVars, batchVars, stateVars, netVars, convertVars, inboxVars, nodeVars, meshVars>>
exceptConvert == <<verifyVars, coordVars, batchVars, stateVars, netVars, proofVars, inboxVars, nodeVars, meshVars>>
exceptInbox == <<verifyVars, coordVars, batchVars, stateVars, netVars, proofVars, convertVars, nodeVars, meshVars>>
exceptNetInbox == <<verifyVars, coordVars, batchVars, stateVars, proofVars, convertVars, nodeVars, meshVars>>
exceptNode == <<verifyVars, coordVars, batchVars, stateVars, netVars, proofVars, convertVars, inboxVars, meshVars>>
exceptMesh == <<verifyVars, coordVars, batchVars, stateVars, netVars, proofVars, convertVars, inboxVars, nodeVars>>
exceptNetMesh == <<verifyVars, coordVars, batchVars, stateVars, proofVars, convertVars, inboxVars, nodeVars>>

(***************************************************************************)
(* Bounds of the model.                                                    *)
(***************************************************************************)
\* coordinates range over Q, R in -MaxCoord..MaxCoord
MaxCoord == 2
\* hashes are 1..NumHashes; 0 is the empty hash common.Hash{}
NumHashes == 3
\* block numbers of candidate headers range over 0..MaxNumber
MaxNumber == 2
\* number of headers the ledger holds besides genesis
MaxLedger == 1
\* header times range over 1..MaxTime; the clock reads MaxTime
MaxTime == 3

(***************************************************************************)
(* Program constants.                                                      *)
(***************************************************************************)
\* [6]common.Hash, [6][]byte, [6]HexCoordinate
NumSlots == 6
\* validateParents: maxDepthDiff := uint64(10)
maxDepthDiff == 10
\* validateTimestamp: maxFuture := uint64(15)
maxFuture == 15

EmptyHash == 0
Hashes == 1..NumHashes
Slots == 1..NumSlots
NoHeader == [none |-> TRUE]
Nil == "nil"

(***************************************************************************)
(* Each specification exercises one component; the others stay at rest.    *)
(***************************************************************************)
IdleCoord == ca = NoHeader /\ cb = NoHeader /\ cop = "none" /\ cres = <<>>

IdleBatch ==
    /\ batch = <<>>
    /\ bi = 1
    /\ wpc = "none"
    /\ werr = Nil
    /\ results = <<>>
    /\ closed = FALSE
    /\ aborted = FALSE
    /\ received = <<>>

IdleState == stateOf = <<>> /\ sblock = NoHeader /\ sres = NoHeader

IdleNet ==
    /\ conns = <<>>
    /\ peers = <<>>
    /\ reqs = <<>>
    /\ clock = 0
    /\ tick = FALSE
    /\ quit = FALSE
    /\ hb = "off"

IdleProof == hp = NoHeader /\ pop = "none" /\ pres = NoHeader

IdleConvert == hexh = NoHeader /\ ethh = NoHeader

IdleInbox == blockCh = <<>> /\ headerCh = <<>> /\ handlers = NoHeader /\ budget = 0 /\ dropped = 0

IdleNode == nodecfg = NoHeader /\ origin = "none" /\ verr = Nil

IdleMesh == localPos = [Q |-> 0, R |-> 0, S |-> 0] /\ peersMu = NoHeader /\ bc = NoHeader /\ nu = <<>> /\ slp = NoHeader

(***************************************************************************)
(* Coordinate module (package core).                                       *)
(***************************************************************************)
abs(x) == IF x < 0 THEN -x ELSE x

NewHexCoordinate(q, r) == [Q |-> q, R |-> r, S |-> (-q) - r]

\* Distance with the Q difference taken signed
Distance_SignedQ(h, other) ==
    ((h.Q - other.Q) + abs(h.R - other.R) + abs(h.S - other.S)) \div 2

\* Distance without the division by two
Distance_NoHalving(h, other) ==
    abs(h.Q - other.Q) + abs(h.R - other.R) + abs(h.S - other.S)

Distance(h, other) ==
    (abs(h.Q - other.Q) + abs(h.R - other.R) + abs(h.S - other.S)) \div 2

\* directions := [6][2]int64{...}: East, NorthEast, NorthWest, West, SouthWest, SouthEast
directions == << <<1, 0>>, <<1, -1>>, <<0, -1>>, <<-1, 0>>, <<-1, 1>>, <<0, 1>> >>

Neighbors(h) ==
    [i \in Slots |-> NewHexCoordinate(h.Q + directions[i][1], h.R + directions[i][2])]

Origin == NewHexCoordinate(0, 0)

(***************************************************************************)
(* Header model (package core): HexHeader, HexaProof, hashes.              *)
(* A header is a record of the fields the validators read:                 *)
(*   ParentHashes, NeighborCount, HexPosition, Number, Time, Root,         *)
(*   GasLimit,                                                             *)
(*   HexProof = [Timestamp, NeighborSignatures]                            *)
(* A signature slot is 0 when empty (len(sig) = 0) and non-zero otherwise. *)
(***************************************************************************)
EmptyParents == [i \in Slots |-> EmptyHash]
EmptySignatures == [i \in Slots |-> 0]
EmptyProof == [Timestamp |-> 0, NeighborSignatures |-> EmptySignatures]

\* weighted, order-sensitive sum of a six-slot array
SlotSum(a, base) ==
    (base + 1) * a[1] + (base + 2) * a[2] + (base + 3) * a[3]
        + (base + 4) * a[4] + (base + 5) * a[5] + (base + 6) * a[6]

\* HexHeader.Hash: rlpHash over all fields, order-sensitive; the digest is
\* folded into the bounded hash space and is never the empty hash
HeaderHash(h) ==
    1 + ((SlotSum(h.ParentHashes, 0) + 7 * h.NeighborCount
          + 11 * (h.HexPosition.Q + 64) + 13 * (h.HexPosition.R + 64)
          + 17 * (h.HexPosition.S + 128) + 19 * h.Number + 23 * h.Time
          + 29 * h.Root + 37 * h.GasLimit + 31 * h.HexProof.Timestamp
          + SlotSum(h.HexProof.NeighborSignatures, 36)) % NumHashes)

\* HexHeader.ToEthHeader: the first non-zero parent is the primary parent
FirstNonZero(a, i) ==
    IF \E j \in i..NumSlots : a[j] # EmptyHash
    THEN a[CHOOSE j \in i..NumSlots :
                a[j] # EmptyHash /\ \A k \in i..(j - 1) : a[k] = EmptyHash]
    ELSE EmptyHash

\* ToEthHeader taking the last non-zero parent as the primary parent
ToEthHeader_LastParent(h) ==
    [ParentHash |->
        IF \E j \in Slots : h.ParentHashes[j] # EmptyHash
        THEN h.ParentHashes[CHOOSE j \in Slots :
                 /\ h.ParentHashes[j] # EmptyHash
                 /\ \A k \in (j + 1)..NumSlots : h.ParentHashes[k] = EmptyHash]
        ELSE EmptyHash,
     Number |-> h.Number, Time |-> h.Time, Root |-> h.Root,
     GasLimit |-> h.GasLimit]

ToEthHeader(h) ==
    [ParentHash |-> FirstNonZero(h.ParentHashes, 1),
     Number |-> h.Number, Time |-> h.Time, Root |-> h.Root,
     GasLimit |-> h.GasLimit]

\* the gas limit HexGenesisBlock sets
GenesisGasLimit == 5000000

\* HexGenesisBlock: no parents, origin, zero proof, Time = creation time
HexGenesisHeader(t) ==
    [ParentHashes |-> EmptyParents, NeighborCount |-> 0, HexPosition |-> Origin,
     Number |-> 0, Time |-> t, Root |-> 0, GasLimit |-> GenesisGasLimit,
     HexProof |-> EmptyProof]

\* number of non-empty entries of a six-slot array
NonZero(a) == Cardinality({i \in Slots : a[i] # 0})

(***************************************************************************)
(* Ledger reader (consensus.ChainHeaderReader / HexBlockChain): the chain  *)
(* is a map from hash to stored header.                                    *)
(***************************************************************************)
GetHexHeader(chain, hash) == chain[hash]

HasHexBlock(chain, hash) == chain[hash] # NoHeader

GetHeaderByHash(chain, hash) ==
    IF chain[hash] = NoHeader THEN NoHeader ELSE ToEthHeader(chain[hash])

(***************************************************************************)
(* HexaProof consensus engine (package consensus).                         *)
(* Every stage returns [err, lookups]: the error (Nil when it passes) and  *)
(* the number of ledger reads it made.                                     *)
(***************************************************************************)
Res(e, n) == [err |-> e, lookups |-> n]

\* DefaultHexaProofConfig
DefaultHexaProofConfig == [MaxNeighbors |-> 6, MinNeighbors |-> 3]

\* convertToHexHeader: standard fields copied, hexagonal fields defaulted
convertToHexHeader(eth) ==
    [ParentHashes |-> [i \in Slots |-> IF i = 1 THEN eth.ParentHash ELSE EmptyHash],
     NeighborCount |-> 1, HexPosition |-> NewHexCoordinate(0, 0),
     Number |-> eth.Number, Time |-> eth.Time, Root |-> eth.Root,
     GasLimit |-> eth.GasLimit,
     HexProof |-> EmptyProof]

\* validateBasicStructure without the comparison of declared and actual parents
validateBasicStructure_NoCount(header) ==
    IF header.NeighborCount > 6 THEN Res("too many neighbors", 0)
    ELSE IF header.Number = 0 /\ header.NeighborCount # 0
        THEN Res("genesis block must have zero neighbors", 0)
    ELSE IF header.Number > 0 /\ header.NeighborCount = 0
        THEN Res("non-genesis block must have at least one parent", 0)
    ELSE Res(Nil, 0)

validateBasicStructure(header) ==
    IF header.NeighborCount > 6 THEN Res("too many neighbors", 0)
    ELSE IF NonZero(header.ParentHashes) # header.NeighborCount
        THEN Res("neighbor count mismatch", 0)
    ELSE IF header.Number = 0 /\ header.NeighborCount # 0
        THEN Res("genesis block must have zero neighbors", 0)
    ELSE IF header.Number > 0 /\ header.NeighborCount = 0
        THEN Res("non-genesis block must have at least one parent", 0)
    ELSE Res(Nil, 0)

RECURSIVE validateParentsFrom_AnyNumber(_, _, _)
\* validateParents without the comparison of block numbers
validateParentsFrom_AnyNumber(chain, header, i) ==
    IF i > NumSlots THEN Res(Nil, 0)
    ELSE IF header.ParentHashes[i] = EmptyHash
        THEN validateParentsFrom_AnyNumber(chain, header, i + 1)
    ELSE LET parentHeader == GetHeaderByHash(chain, header.ParentHashes[i]) IN
        IF parentHeader = NoHeader THEN Res("unknown parent", 1)
        ELSE LET rest == validateParentsFrom_AnyNumber(chain, header, i + 1) IN
            Res(rest.err, rest.lookups + 1)

RECURSIVE validateParentsFrom_AtLeast(_, _, _)
\* validateParents rejecting a depth difference of maxDepthDiff as well
validateParentsFrom_AtLeast(chain, header, i) ==
    IF i > NumSlots THEN Res(Nil, 0)
    ELSE IF header.ParentHashes[i] = EmptyHash
        THEN validateParentsFrom_AtLeast(chain, header, i + 1)
    ELSE LET parentHeader == GetHeaderByHash(chain, header.ParentHashes[i]) IN
        IF parentHeader = NoHeader THEN Res("unknown parent", 1)
        ELSE IF parentHeader.Number >= header.Number
            THEN Res("invalid parent number", 1)
        ELSE IF header.Number - parentHeader.Number >= maxDepthDiff
            THEN Res("parent too old", 1)
        ELSE LET rest == validateParentsFrom_AtLeast(chain, header, i + 1) IN
            Res(rest.err, rest.lookups + 1)

RECURSIVE validateParentsFrom(_, _, _)
validateParentsFrom(chain, header, i) ==
    IF i > NumSlots THEN Res(Nil, 0)
    ELSE IF header.ParentHashes[i] = EmptyHash
        THEN validateParentsFrom(chain, header, i + 1)
    ELSE LET parentHeader == GetHeaderByHash(chain, header.ParentHashes[i]) IN
        IF parentHeader = NoHeader THEN Res("unknown parent", 1)
        ELSE IF parentHeader.Number >= header.Number
            THEN Res("invalid parent number", 1)
        ELSE IF header.Number - parentHeader.Number > maxDepthDiff
            THEN Res("parent too old", 1)
        ELSE LET rest == validateParentsFrom(chain, header, i + 1) IN
            Res(rest.err, rest.lookups + 1)

validateParents(chain, header) == validateParentsFrom(chain, header, 1)

\* the inner loop of validateMeshTopology over one resolved parent
ParentReferences(chain, parentHash, hash) ==
    LET parentHeader == GetHeaderByHash(chain, parentHash) IN
    /\ parentHeader # NoHeader
    /\ \E j \in Slots : convertToHexHeader(parentHeader).ParentHashes[j] = hash

RECURSIVE validateMeshTopologyFrom(_, _, _)
validateMeshTopologyFrom(chain, header, i) ==
    IF i > NumSlots THEN Res(Nil, 0)
    ELSE IF header.ParentHashes[i] = EmptyHash
        THEN validateMeshTopologyFrom(chain, header, i + 1)
    ELSE IF header.ParentHashes[i] = HeaderHash(header)
        THEN Res("block cannot reference itself", 0)
    ELSE IF ParentReferences(chain, header.ParentHashes[i], HeaderHash(header))
        THEN Res("circular reference detected", 1)
    ELSE LET rest == validateMeshTopologyFrom(chain, header, i + 1) IN
        Res(rest.err, rest.lookups + 1)

\* validateMeshTopology without the self-reference check
RECURSIVE validateMeshTopology_NoSelfFrom(_, _, _)
validateMeshTopology_NoSelfFrom(chain, header, i) ==
    IF i > NumSlots THEN Res(Nil, 0)
    ELSE IF header.ParentHashes[i] = EmptyHash
        THEN validateMeshTopology_NoSelfFrom(chain, header, i + 1)
    ELSE IF ParentReferences(chain, header.ParentHashes[i], HeaderHash(header))
        THEN Res("circular reference detected", 1)
    ELSE LET rest == validateMeshTopology_NoSelfFrom(chain, header, i + 1) IN
        Res(rest.err, rest.lookups + 1)

validateMeshTopology_NoSelf(chain, header) ==
    validateMeshTopology_NoSelfFrom(chain, header, 1)

\* the neighbor positions are computed and then not compared with anything
validateMeshTopology(chain, header) == validateMeshTopologyFrom(chain, header, 1)

\* the neighbor-count stage without the minimum
validateNeighborCount_NoMinimum(cfg, header) ==
    IF header.NeighborCount > cfg.MaxNeighbors THEN Res("too many neighbors", 0)
    ELSE Res(Nil, 0)

validateNeighborCount(cfg, header) ==
    IF header.NeighborCount > cfg.MaxNeighbors THEN Res("too many neighbors", 0)
    ELSE IF header.Number > 0 /\ header.NeighborCount < cfg.MinNeighbors
        THEN Res("insufficient neighbors for finality", 0)
    ELSE Res(Nil, 0)

ResolvedParentTimes(chain, header) ==
    {GetHeaderByHash(chain, header.ParentHashes[i]).Time :
        i \in {j \in Slots : /\ header.ParentHashes[j] # EmptyHash
                             /\ GetHeaderByHash(chain, header.ParentHashes[j]) # NoHeader}}

MaxOf(S) == IF S = {} THEN 0 ELSE CHOOSE m \in S : \A x \in S : x <= m

\* validateTimestamp accepting a header as old as its latest parent
validateTimestamp_AllowEqual(chain, header, nowUnix) ==
    LET maxParentTime == MaxOf(ResolvedParentTimes(chain, header))
        n == NonZero(header.ParentHashes) IN
    IF header.Time < maxParentTime THEN Res("invalid timestamp", n)
    ELSE IF header.Time > nowUnix + maxFuture THEN Res("timestamp too far in future", n)
    ELSE Res(Nil, n)

validateTimestamp(chain, header, nowUnix) ==
    LET maxParentTime == MaxOf(ResolvedParentTimes(chain, header))
        n == NonZero(header.ParentHashes) IN
    IF header.Time <= maxParentTime THEN Res("invalid timestamp", n)
    ELSE IF header.Time > nowUnix + maxFuture THEN Res("timestamp too far in future", n)
    ELSE Res(Nil, n)

RECURSIVE proofParentsFrom(_, _, _)
proofParentsFrom(chain, header, i) ==
    IF i > NumSlots THEN Res(Nil, 0)
    ELSE IF header.ParentHashes[i] = EmptyHash THEN proofParentsFrom(chain, header, i + 1)
    ELSE IF GetHeaderByHash(chain, header.ParentHashes[i]) = NoHeader
        THEN Res("proof references unknown parent", 1)
    ELSE LET rest == proofParentsFrom(chain, header, i + 1) IN
        Res(rest.err, rest.lookups + 1)

\* validateHexaProof without the comparison of signatures and neighbor count
validateHexaProof_NoSignatureCount(chain, header) ==
    LET proof == header.HexProof
        refs == proofParentsFrom(chain, header, 1) IN
    IF proof.Timestamp = 0 THEN Res("missing proof timestamp", 0)
    ELSE IF proof.Timestamp < header.Time
        THEN Res("proof timestamp before block timestamp", 0)
    ELSE refs

validateHexaProof(chain, header) ==
    LET proof == header.HexProof
        refs == proofParentsFrom(chain, header, 1) IN
    IF proof.Timestamp = 0 THEN Res("missing proof timestamp", 0)
    ELSE IF proof.Timestamp < header.Time
        THEN Res("proof timestamp before block timestamp", 0)
    ELSE IF refs.err # Nil THEN refs
    ELSE IF NonZero(proof.NeighborSignatures) < header.NeighborCount
        THEN Res("insufficient signatures", refs.lookups)
    ELSE Res(Nil, refs.lookups)

\* verifyHexHeader: the six stages in order, the first failure returns
verifyHexHeader(chain, cfg, header, nowUnix) ==
    LET r1 == validateBasicStructure(header)
        r2 == validateParents(chain, header)
        r3 == validateMeshTopology(chain, header)
        r4 == validateNeighborCount(cfg, header)
        r5 == validateTimestamp(chain, header, nowUnix)
        r6 == validateHexaProof(chain, header) IN
    IF r1.err # Nil THEN [stage |-> "structural", err |-> r1.err]
    ELSE IF r2.err # Nil THEN [stage |-> "parents", err |-> r2.err]
    ELSE IF r3.err # Nil THEN [stage |-> "topology", err |-> r3.err]
    ELSE IF r4.err # Nil THEN [stage |-> "neighbors", err |-> r4.err]
    ELSE IF r5.err # Nil THEN [stage |-> "timestamp", err |-> r5.err]
    ELSE IF r6.err # Nil THEN [stage |-> "proof", err |-> r6.err]
    ELSE [stage |-> "none", err |-> Nil]

\* VerifyHeader: the standard header is converted, then verified
VerifyHeader(chain, cfg, eth, nowUnix) ==
    verifyHexHeader(chain, cfg, convertToHexHeader(eth), nowUnix)

(***************************************************************************)
(* HexBlockValidator (package core, block validation).                     *)
(***************************************************************************)
validateHexCoordinate(header) ==
    LET pos == header.HexPosition IN
    IF pos.Q + pos.R + pos.S # 0 THEN Res("invalid hex coordinate", 0) ELSE Res(Nil, 0)

RECURSIVE parentsExistFrom(_, _, _)
parentsExistFrom(chain, header, i) ==
    IF i > NumSlots THEN Res(Nil, 0)
    ELSE IF header.ParentHashes[i] = EmptyHash THEN parentsExistFrom(chain, header, i + 1)
    ELSE IF ~HasHexBlock(chain, header.ParentHashes[i]) THEN Res("unknown parent", 1)
    ELSE LET rest == parentsExistFrom(chain, header, i + 1) IN
        Res(rest.err, rest.lookups + 1)

validateHexSpecificHeader(chain, header) ==
    LET exist == parentsExistFrom(chain, header, 1) IN
    IF header.NeighborCount > 6 THEN Res("too many neighbors", 0)
    ELSE IF NonZero(header.ParentHashes) # header.NeighborCount
        THEN Res("neighbor count mismatch", 0)
    ELSE IF exist.err # Nil THEN exist
    ELSE Res(validateHexCoordinate(header).err, exist.lookups)

\* ValidateHexHeader: the consensus engine sees the standard header only
ValidateHexHeader(chain, cfg, header, nowUnix) ==
    LET v == VerifyHeader(chain, cfg, ToEthHeader(header), nowUnix) IN
    IF v.err # Nil THEN [stage |-> "engine " \o v.stage, err |-> v.err]
    ELSE [stage |-> "hex specific", err |-> validateHexSpecificHeader(chain, header).err]

\* HexBlockValidator.validateMeshTopology: every resolved parent sits on one
\* of the six neighbor positions of the block
RECURSIVE validatorMeshTopologyFrom(_, _, _)
validatorMeshTopologyFrom(chain, header, i) ==
    IF i > NumSlots THEN Nil
    ELSE IF header.ParentHashes[i] = EmptyHash
        THEN validatorMeshTopologyFrom(chain, header, i + 1)
    ELSE LET parentBlock == GetHexHeader(chain, header.ParentHashes[i])
             validNeighbors == Neighbors(header.HexPosition) IN
        IF /\ parentBlock # NoHeader
           /\ ~\E k \in Slots : validNeighbors[k] = parentBlock.HexPosition
        THEN "parent at invalid neighbor position"
        ELSE validatorMeshTopologyFrom(chain, header, i + 1)

\* validateMeshTopology that accepts a parent two steps away as well
validatorMeshTopology_Within2(chain, header) ==
    IF \E i \in Slots :
        /\ header.ParentHashes[i] # EmptyHash
        /\ GetHexHeader(chain, header.ParentHashes[i]) # NoHeader
        /\ Distance(header.HexPosition,
                    GetHexHeader(chain, header.ParentHashes[i]).HexPosition) > 2
    THEN "parent at invalid neighbor position"
    ELSE Nil

validatorMeshTopology(chain, header) == validatorMeshTopologyFrom(chain, header, 1)

RECURSIVE circularFrom(_, _, _)
circularFrom(chain, header, i) ==
    IF i > NumSlots THEN Nil
    ELSE IF header.ParentHashes[i] = EmptyHash THEN circularFrom(chain, header, i + 1)
    ELSE IF header.ParentHashes[i] = HeaderHash(header) THEN "block cannot reference itself"
    ELSE LET parentBlock == GetHexHeader(chain, header.ParentHashes[i]) IN
        IF /\ parentBlock # NoHeader
           /\ \E j \in Slots : parentBlock.ParentHashes[j] = HeaderHash(header)
        THEN "circular reference detected"
        ELSE circularFrom(chain, header, i + 1)

ValidateMeshIntegrity(chain, header) ==
    LET c == circularFrom(chain, header, 1)
        t == validatorMeshTopology(chain, header) IN
    IF c # Nil THEN [stage |-> "circular", err |-> c]
    ELSE IF t # Nil THEN [stage |-> "mesh topology", err |-> t]
    ELSE IF header.NeighborCount > 6 THEN [stage |-> "mesh count", err |-> "too many neighbors"]
    ELSE IF header.Number > 0 /\ header.NeighborCount < 1
        THEN [stage |-> "mesh count", err |-> "non-genesis block must have at least one parent"]
    ELSE [stage |-> "none", err |-> Nil]

(***************************************************************************)
(* Inputs of header validation.                                            *)
(***************************************************************************)
Times == 1..MaxTime

\* a time beyond now + maxFuture
FarFuture == MaxTime + maxFuture + 1

\* LightConfig: MaxNeighbors = 2, MinNeighbors = 1
LightHexaProofConfig == [MaxNeighbors |-> 2, MinNeighbors |-> 1]

ConfigChoices == {DefaultHexaProofConfig, LightHexaProofConfig}

\* signatures in the first n slots
SignedPrefix(n) == [i \in Slots |-> IF i <= n THEN 1 ELSE 0]

\* one parent in any slot, or parents in the first two slots
ParentChoices ==
    {EmptyParents}
        \cup {[i \in Slots |-> IF i = k THEN a ELSE EmptyHash] : k \in Slots, a \in Hashes}
        \cup {[i \in Slots |-> IF i = 1 THEN a ELSE IF i = 2 THEN b ELSE EmptyHash] :
                a \in Hashes, b \in Hashes}

PosChoices ==
    {Origin, NewHexCoordinate(1, 0), NewHexCoordinate(1, -1), NewHexCoordinate(2, -1)}

\* the well-formed header over the given parents
BaseHeader(p, n, t) ==
    [ParentHashes |-> p, NeighborCount |-> NonZero(p),
     HexPosition |-> NewHexCoordinate(1, 0), Number |-> n, Time |-> t, Root |-> 0,
     GasLimit |-> GenesisGasLimit,
     HexProof |-> [Timestamp |-> t, NeighborSignatures |-> SignedPrefix(NonZero(p))]]

\* the header and the headers that differ from it in one field
Variants(b) ==
    {b}
        \cup {[b EXCEPT !.NeighborCount = c] : c \in {0, 1, 2, 3, 7}}
        \cup {[b EXCEPT !.HexPosition = x] : x \in PosChoices}
        \cup {[b EXCEPT !.Time = t] : t \in Times \cup {FarFuture - 1, FarFuture}}
        \cup {[b EXCEPT !.HexProof.Timestamp = t] : t \in {0} \cup Times}
        \cup {[b EXCEPT !.HexProof.NeighborSignatures = SignedPrefix(n)] : n \in 0..2}

\* block numbers of candidates: the low numbers and the numbers at and just
\* beyond the depth limit above genesis
CandidateNumbers == (0..MaxNumber) \cup {maxDepthDiff, maxDepthDiff + 1}

Candidates ==
    UNION {Variants(BaseHeader(p, n, t)) :
               p \in ParentChoices, n \in CandidateNumbers, t \in {MaxTime}}
        \cup {HexGenesisHeader(t) : t \in Times}
        \cup {[HexGenesisHeader(t) EXCEPT !.HexProof.Timestamp = t] : t \in Times}

\* standard headers handed to the engine's VerifyHeader
EthCandidates ==
    [ParentHash : {EmptyHash} \cup Hashes, Number : 0..MaxNumber,
     Time : Times \cup {FarFuture}, Root : {0}, GasLimit : {GenesisGasLimit}]

\* ledgers: genesis, extended by blocks whose parents the ledger resolves,
\* each stored under its own hash
Genesis == HexGenesisHeader(1)

GenesisLedger == [k \in Hashes |-> IF k = HeaderHash(Genesis) THEN Genesis ELSE NoHeader]

Known(chain) == {k \in Hashes : chain[k] # NoHeader}

Extend(chain, b) ==
    IF chain[HeaderHash(b)] = NoHeader THEN [chain EXCEPT ![HeaderHash(b)] = b] ELSE chain

Children(chain) ==
    LET top == MaxOf({chain[k].Number : k \in Known(chain)})
        last == MaxOf({chain[k].Time : k \in Known(chain)}) IN
    {[BaseHeader(p, top + 1, last + 1) EXCEPT !.HexPosition = NewHexCoordinate(1, -top)] :
        p \in {q \in ParentChoices : /\ q[1] # EmptyHash
                                     /\ \A i \in Slots : q[i] \in {EmptyHash} \cup Known(chain)}}

RECURSIVE LedgersUpTo(_)
LedgersUpTo(n) ==
    IF n = 0 THEN {GenesisLedger}
    ELSE LET prev == LedgersUpTo(n - 1) IN
        prev \cup UNION {{Extend(chain, b) : b \in Children(chain)} : chain \in prev}

LedgerChoices == LedgersUpTo(MaxLedger)

(***************************************************************************)
(* Header validation as a state machine: a caller hands a header to one    *)
(* entry point; verifyHexHeader runs stage by stage.                       *)
(***************************************************************************)
NoVerdict == [stage |-> "pending", err |-> Nil]

InitVerify ==
    /\ ledger \in LedgerChoices
    /\ config \in ConfigChoices
    /\ now = MaxTime
    /\ hdr = NoHeader
    /\ entry = "none"
    /\ vpc = "idle"
    /\ verdict = NoVerdict
    /\ lookups = 0
    /\ trace = <<>>

Begin(h, e) ==
    /\ vpc = "idle"
    /\ hdr' = h
    /\ entry' = e
    /\ vpc' = "structural"
    /\ verdict' = NoVerdict
    /\ lookups' = 0
    /\ trace' = <<>>
    /\ UNCHANGED <<ledger, config, now>>
    /\ UNCHANGED exceptVerify

\* a caller of the engine's verifyHexHeader
CallVerifyHexHeader ==
    /\ vpc = "idle"
    /\ \E h \in Candidates : Begin(h, "verifyHexHeader")

\* a caller of the engine's VerifyHeader (consensus.Engine)
CallVerifyHeader ==
    /\ vpc = "idle"
    /\ \E e \in EthCandidates : Begin(convertToHexHeader(e), "VerifyHeader")

\* a stage that records its error and goes on to the next stage all the same
Stage_ContinueAfterFailure(name, r, next) ==
    /\ vpc = name
    /\ trace' = Append(trace, name)
    /\ lookups' = lookups + r.lookups
    /\ vpc' = next
    /\ verdict' = IF r.err # Nil THEN [stage |-> name, err |-> r.err]
                  ELSE IF next = "done" /\ verdict.err = Nil
                      THEN [stage |-> "none", err |-> Nil]
                  ELSE verdict
    /\ UNCHANGED <<ledger, config, now, hdr, entry>>
    /\ UNCHANGED exceptVerify

\* one stage of verifyHexHeader: return its error, or go on to the next stage
Stage(name, r, next) ==
    /\ vpc = name
    /\ trace' = Append(trace, name)
    /\ lookups' = lookups + r.lookups
    /\ IF r.err # Nil
       THEN vpc' = "done" /\ verdict' = [stage |-> name, err |-> r.err]
       ELSE /\ vpc' = next
            /\ verdict' = IF next = "done" THEN [stage |-> "none", err |-> Nil] ELSE verdict
    /\ UNCHANGED <<ledger, config, now, hdr, entry>>
    /\ UNCHANGED exceptVerify

StageStructural == Stage("structural", validateBasicStructure(hdr), "parents")

StageParents == Stage("parents", validateParents(ledger, hdr), "topology")

StageTopology == Stage("topology", validateMeshTopology(ledger, hdr), "neighbors")

StageNeighborCount == Stage("neighbors", validateNeighborCount(config, hdr), "timestamp")

StageTimestamp == Stage("timestamp", validateTimestamp(ledger, hdr, now), "proof")

StageProof == Stage("proof", validateHexaProof(ledger, hdr), "done")

\* a call of one method of the block validator, which returns at once
Returned(h, e, v) ==
    /\ vpc = "idle"
    /\ hdr' = h
    /\ entry' = e
    /\ vpc' = "done"
    /\ verdict' = v
    /\ UNCHANGED <<ledger, config, now, lookups, trace>>
    /\ UNCHANGED exceptVerify

CallValidateHexHeader ==
    /\ vpc = "idle"
    /\ \E h \in Candidates :
        Returned(h, "ValidateHexHeader", ValidateHexHeader(ledger, config, h, now))

CallValidateMeshIntegrity ==
    /\ vpc = "idle"
    /\ \E h \in Candidates :
        Returned(h, "ValidateMeshIntegrity", ValidateMeshIntegrity(ledger, h))

NextVerify ==
    \/ CallVerifyHexHeader
    \/ CallVerifyHeader
    \/ StageStructural
    \/ StageParents
    \/ StageTopology
    \/ StageNeighborCount
    \/ StageTimestamp
    \/ StageProof
    \/ CallValidateHexHeader
    \/ CallValidateMeshIntegrity

Init == InitVerify /\ IdleCoord /\ IdleBatch /\ IdleState /\ IdleNet /\ IdleProof /\ IdleConvert /\ IdleInbox /\ IdleNode /\ IdleMesh

Spec == Init /\ [][NextVerify]_vars

(***************************************************************************)
(* Properties of header validation.                                        *)
(***************************************************************************)
Finished(e) == vpc = "done" /\ entry = e

CountMismatch(h) == NonZero(h.ParentHashes) # h.NeighborCount

\* the resolved parents of a header, as stored in the ledger
ResolvedParents(chain, h) ==
    {chain[h.ParentHashes[i]] :
        i \in {j \in Slots : /\ h.ParentHashes[j] # EmptyHash
                             /\ chain[h.ParentHashes[j]] # NoHeader}}

Adjacent(a, b) == \E k \in Slots : Neighbors(a)[k] = b

SelfParent(h) == \E i \in Slots : h.ParentHashes[i] = HeaderHash(h)

\* C1: a header whose declared neighbor count differs from its number of
\* non-empty parent slots is rejected, and the rejection comes from the
\* structural stage of verifyHexHeader, which is the only stage run and
\* reads nothing from the ledger; the count check of the block validator's
\* validateHexSpecificHeader likewise rejects it before it looks up a parent
C1_CountMismatchRejectedStructurally ==
    /\ (/\ entry \in {"verifyHexHeader", "VerifyHeader"}
        /\ vpc # "structural"
        /\ CountMismatch(hdr))
            => /\ vpc = "done"
               /\ verdict.stage = "structural"
               /\ verdict.err \in {"too many neighbors", "neighbor count mismatch"}
               /\ trace = <<"structural">>
               /\ lookups = 0
    /\ (Finished("ValidateHexHeader") /\ CountMismatch(hdr)) => verdict.err # Nil
    /\ vpc = "idle" =>
            \A h \in Candidates :
                CountMismatch(h) =>
                    /\ validateHexSpecificHeader(ledger, h).err
                            \in {"too many neighbors", "neighbor count mismatch"}
                    /\ validateHexSpecificHeader(ledger, h).lookups = 0

\* a header with one parent slot more than declared, all parents known and
\* older, was rejected by the structural stage
C1_Witness ==
    /\ Finished("verifyHexHeader")
    /\ NonZero(hdr.ParentHashes) = hdr.NeighborCount + 1
    /\ hdr.Number > 0
    /\ validateParents(ledger, hdr).err = Nil
    /\ verdict = [stage |-> "structural", err |-> "neighbor count mismatch"]

\* C2 (as claimed): a genesis header with a non-zero neighbor count is
\* rejected, and the genesis header built by HexGenesisBlock (neighbor count
\* 0, position origin) is accepted by verifyHexHeader
C2_GenesisAccepted ==
    Finished("verifyHexHeader") =>
        /\ (hdr.Number = 0 /\ hdr.NeighborCount # 0) => verdict.err # Nil
        /\ hdr \in {HexGenesisHeader(t) : t \in Times} => verdict.err = Nil

\* C3 (as claimed): a header the engine's pipeline accepts has every
\* resolved parent on one of the six neighbor positions of its own position
C3_AcceptedParentsAdjacent ==
    (Finished("verifyHexHeader") /\ verdict.err = Nil) =>
        \A parent \in ResolvedParents(ledger, hdr) :
            Adjacent(hdr.HexPosition, parent.HexPosition)

\* the scenario of C4: genesis at the origin, B1 at (1,0) with genesis as
\* its only parent, both in the ledger, and the candidate B2 at pos with
\* exactly the parents B1 and genesis
Scenario(pos) ==
    /\ hdr # NoHeader
    /\ hdr.HexPosition = pos
    /\ hdr.Number = 2
    /\ hdr.NeighborCount = 2
    /\ ~SelfParent(hdr)
    /\ \E g \in Hashes, b \in Hashes :
        /\ g # b
        /\ ledger[g] = Genesis
        /\ ledger[b] # NoHeader
        /\ ledger[b].HexPosition = NewHexCoordinate(1, 0)
        /\ ledger[b].Number = 1
        /\ {ledger[b].ParentHashes[i] : i \in Slots} = {g, EmptyHash}
        /\ {hdr.ParentHashes[i] : i \in Slots} = {g, b, EmptyHash}

C5_SelfParentRejected ==
    (vpc = "done" /\ SelfParent(hdr)) => verdict.err # Nil

\* a self-referencing header whose parents all resolve to older blocks was
\* rejected by the self-reference check of the topology stage
C5_Witness ==
    /\ Finished("verifyHexHeader")
    /\ SelfParent(hdr)
    /\ verdict = [stage |-> "topology", err |-> "block cannot reference itself"]

(***************************************************************************)
(* Coordinate arithmetic as a state machine: a caller applies Neighbors or *)
(* Distance to coordinate values.  HexCoordinate is a struct with exported *)
(* fields: besides the values built by NewHexCoordinate, a value decoded   *)
(* from a status, neighbor-update or header message carries the S the      *)
(* sender wrote.                                                           *)
(***************************************************************************)
CoordValues ==
    {[NewHexCoordinate(q, r) EXCEPT !.S = @ + d] :
        q \in -MaxCoord..MaxCoord, r \in -MaxCoord..MaxCoord, d \in 0..1}

InitCoord ==
    /\ ca \in CoordValues
    /\ cb = ca
    /\ cop = "none"
    /\ cres = <<>>

CallNeighbors ==
    /\ cop = "none"
    /\ cop' = "Neighbors"
    /\ cres' = Neighbors(ca)
    /\ UNCHANGED <<ca, cb>>
    /\ UNCHANGED exceptCoord

CallDistance ==
    /\ cop = "none"
    /\ \E b \in CoordValues :
        /\ cb' = b
        /\ cres' = <<Distance(ca, b)>>
    /\ cop' = "Distance"
    /\ UNCHANGED ca
    /\ UNCHANGED exceptCoord

\* the caller takes the result; it may go on from one of the neighbors
CoordReturn ==
    /\ cop # "none"
    /\ cop' = "none"
    /\ cres' = <<>>
    /\ ca' \in {ca} \cup (IF cop = "Neighbors"
                            THEN {cres[i] : i \in Slots} \cap CoordValues ELSE {})
    /\ cb' = ca'
    /\ UNCHANGED exceptCoord

NextCoord ==
    \/ CallNeighbors
    \/ CallDistance
    \/ CoordReturn

IdleVerify ==
    /\ ledger = GenesisLedger
    /\ config = DefaultHexaProofConfig
    /\ now = MaxTime
    /\ hdr = NoHeader
    /\ entry = "none"
    /\ vpc = "idle"
    /\ verdict = NoVerdict
    /\ lookups = 0
    /\ trace = <<>>

InitSpecCoord == InitCoord /\ IdleVerify /\ IdleBatch /\ IdleState /\ IdleNet /\ IdleProof /\ IdleConvert /\ IdleInbox /\ IdleNode /\ IdleMesh

SpecCoord == InitSpecCoord /\ [][NextCoord]_vars

(***************************************************************************)
(* Properties of the coordinate arithmetic.                                *)
(***************************************************************************)
\* q + r + s == 0
IsCube(h) == h.Q + h.R + h.S = 0

\* six results, pairwise distinct, the i-th at the i-th canonical offset
CanonicalSix(a, n) ==
    /\ DOMAIN n = Slots
    /\ Cardinality({n[i] : i \in Slots}) = NumSlots
    /\ \A i \in Slots : n[i].Q = a.Q + directions[i][1] /\ n[i].R = a.R + directions[i][2]
    /\ <<n[1].Q - a.Q, n[1].R - a.R>> = <<1, 0>>
    /\ <<n[2].Q - a.Q, n[2].R - a.R>> = <<1, -1>>
    /\ <<n[3].Q - a.Q, n[3].R - a.R>> = <<0, -1>>
    /\ <<n[4].Q - a.Q, n[4].R - a.R>> = <<-1, 0>>
    /\ <<n[5].Q - a.Q, n[5].R - a.R>> = <<-1, 1>>
    /\ <<n[6].Q - a.Q, n[6].R - a.R>> = <<0, 1>>

\* C10: for every coordinate value a, Neighbors(a) is six pairwise distinct
\* coordinates in the order E, NE, NW, W, SW, SE, each at Distance 1 from a.
C10_NeighborsAtDistanceOne ==
    cop = "Neighbors" =>
        /\ CanonicalSix(ca, cres)
        /\ \A i \in Slots : Distance(ca, cres[i]) = 1

\* the same for the values that satisfy q + r + s == 0, and the order and
\* distinctness for every value
NeighborsOfCube ==
    cop = "Neighbors" =>
        /\ CanonicalSix(ca, cres)
        /\ IsCube(ca) => \A i \in Slots : Distance(ca, cres[i]) = 1

NeighborsOfCubeReached == cop = "Neighbors" /\ IsCube(ca) /\ ca # Origin

(***************************************************************************)
(* Batch verification (VerifyHeaders): one goroutine verifies the headers  *)
(* in input order and sends each verdict on the results channel, buffered  *)
(* to len(headers) and closed when the goroutine returns; the caller may   *)
(* close the abort channel and receives from results.                      *)
(***************************************************************************)
\* number of headers in a batch
MaxBatch == 3

\* headers of number 0 and 1 over the empty parent and the genesis parent
BatchHeaders ==
    {e \in EthCandidates : /\ e.Time = MaxTime
                           /\ e.Number <= 1
                           /\ e.ParentHash \in {EmptyHash, HeaderHash(Genesis)}
                           /\ e.Number = 0 => e.ParentHash = EmptyHash}

BatchChoices == UNION {[1..n -> BatchHeaders] : n \in 0..MaxBatch}

\* the state VerifyHeaders returns in: channels made, goroutine started
InitBatch ==
    /\ batch \in BatchChoices
    /\ bi = 1
    /\ wpc = "loop"
    /\ werr = Nil
    /\ results = <<>>
    /\ closed = FALSE
    /\ aborted = FALSE
    /\ received = <<>>

\* for i, header := range headers { select { case <-abort: return; default:
WorkerSelect ==
    /\ wpc = "loop"
    /\ wpc' = IF bi > Len(batch) \/ aborted THEN "exit" ELSE "verify"
    /\ UNCHANGED <<batch, bi, werr, results, closed, aborted, received>>
    /\ UNCHANGED exceptBatch

\* err := h.VerifyHeader(chain, header)
WorkerVerify ==
    /\ wpc = "verify"
    /\ werr' = VerifyHeader(ledger, config, batch[bi], now).err
    /\ wpc' = "send"
    /\ UNCHANGED <<batch, bi, results, closed, aborted, received>>
    /\ UNCHANGED exceptBatch

\* the send on a results channel that holds one value at most
WorkerSend_SingleSlot ==
    /\ wpc = "send"
    /\ Len(results) < 1
    /\ results' = Append(results, werr)
    /\ bi' = bi + 1
    /\ wpc' = "loop"
    /\ UNCHANGED <<batch, werr, closed, aborted, received>>
    /\ UNCHANGED exceptBatch

\* select { case results <- err: ... } with room in the buffer
WorkerSend ==
    /\ wpc = "send"
    /\ Len(results) + Len(received) < Len(batch)
    /\ results' = Append(results, werr)
    /\ bi' = bi + 1
    /\ wpc' = "loop"
    /\ UNCHANGED <<batch, werr, closed, aborted, received>>
    /\ UNCHANGED exceptBatch

\* select { ... case <-abort: return }: with both cases ready either is taken
WorkerAbortAtSend ==
    /\ wpc = "send"
    /\ aborted
    /\ wpc' = "exit"
    /\ UNCHANGED <<batch, bi, werr, results, closed, aborted, received>>
    /\ UNCHANGED exceptBatch

\* defer close(results)
WorkerExit ==
    /\ wpc = "exit"
    /\ closed' = TRUE
    /\ wpc' = "done"
    /\ UNCHANGED <<batch, bi, werr, results, aborted, received>>
    /\ UNCHANGED exceptBatch

\* the caller closes the abort channel
Abort ==
    /\ wpc # "none"
    /\ ~aborted
    /\ aborted' = TRUE
    /\ UNCHANGED <<batch, bi, wpc, werr, results, closed, received>>
    /\ UNCHANGED exceptBatch

\* the caller receives the oldest buffered result
Receive ==
    /\ results # <<>>
    /\ received' = Append(received, Head(results))
    /\ results' = Tail(results)
    /\ UNCHANGED <<batch, bi, wpc, werr, closed, aborted>>
    /\ UNCHANGED exceptBatch

NextBatch ==
    \/ WorkerSelect
    \/ WorkerVerify
    \/ WorkerSend
    \/ WorkerAbortAtSend
    \/ WorkerExit
    \/ Abort
    \/ Receive

InitSpecBatch == InitVerify /\ InitBatch /\ IdleCoord /\ IdleState /\ IdleNet /\ IdleProof /\ IdleConvert /\ IdleInbox /\ IdleNode /\ IdleMesh

SpecBatch == InitSpecBatch /\ [][NextBatch]_vars

(***************************************************************************)
(* Properties of batch verification.                                       *)
(***************************************************************************)
\* the batch ran to its end unaborted and the caller drained the channel
BatchDelivered == wpc = "done" /\ ~aborted /\ results = <<>>

StructurallyInvalid(e) == validateBasicStructure(convertToHexHeader(e)).err # Nil

\* exactly the k-th header of the batch is structurally invalid
OnlyInvalidAt(k) ==
    \A i \in 1..Len(batch) : StructurallyInvalid(batch[i]) <=> i = k

\* an unaborted batch delivers one result per header, in input order, each
\* the verdict VerifyHeader gives that header alone
BatchVerdictsInOrder ==
    BatchDelivered =>
        /\ Len(received) = Len(batch)
        /\ \A i \in 1..Len(batch) :
            received[i] = VerifyHeader(ledger, config, batch[i], now).err

\* C6: an unaborted batch delivers exactly n results in input order, result i
\* being the verdict of header i alone; when only header k is structurally
\* invalid there is exactly one failure, at index k, and the other results
\* are successes.
C6_BatchOneFailureAtInvalid ==
    BatchDelivered =>
        /\ Len(received) = Len(batch)
        /\ \A i \in 1..Len(batch) :
            received[i] = VerifyHeader(ledger, config, batch[i], now).err
        /\ \A k \in 1..Len(batch) :
            OnlyInvalidAt(k) => \A i \in 1..Len(batch) : (received[i] # Nil) <=> (i = k)

\* some header of some batch is verified successfully
BatchSuccessReached == \E i \in 1..Len(received) : received[i] = Nil

BatchOrderReached ==
    /\ BatchDelivered
    /\ Len(batch) = MaxBatch
    /\ \E k \in 1..Len(batch) : OnlyInvalidAt(k)

(***************************************************************************)
(* State transitions of a block over the states of its parents            *)
(* (HexBlockValidator.ValidateStateTransitions).  A state maps the key k   *)
(* to the value last written to it.                                        *)
(***************************************************************************)
\* values written to the key range over 1..MaxValue
MaxValue == 2

NoState == [none |-> TRUE]

StateValues == {[k |-> v] : v \in 1..MaxValue}

\* v.bc.GetState(parentHash)
GetState(db, hash) ==
    IF db[hash] = NoState THEN [state |-> NoState, err |-> "state not found"]
    ELSE [state |-> db[hash], err |-> Nil]

\* the loop over header.ParentHashes, from slot i on
RECURSIVE parentStatesFrom(_, _, _)
parentStatesFrom(db, header, i) ==
    IF i > NumSlots THEN [states |-> <<>>, err |-> Nil]
    ELSE IF header.ParentHashes[i] = EmptyHash THEN parentStatesFrom(db, header, i + 1)
    ELSE LET got == GetState(db, header.ParentHashes[i]) IN
        IF got.err # Nil THEN [states |-> <<>>, err |-> "failed to get parent state"]
        ELSE LET rest == parentStatesFrom(db, header, i + 1) IN
            IF rest.err # Nil THEN rest
            ELSE [states |-> <<got.state>> \o rest.states, err |-> Nil]

\* the base state is the first parent state in slot order; the source
\* computes it and discards it
ValidateStateTransitions(db, header) ==
    LET ps == parentStatesFrom(db, header, 1) IN
    IF ps.err # Nil THEN [err |-> ps.err, baseState |-> NoState]
    ELSE IF Len(ps.states) = 0
        THEN IF header.Number # 0
             THEN [err |-> "non-genesis block must have parent states", baseState |-> NoState]
             ELSE [err |-> Nil, baseState |-> NoState]
    ELSE [err |-> Nil, baseState |-> ps.states[1]]

\* statedb.IntermediateRoot: the root of a state, one root per value of the key
IntermediateRoot(st) == st.k

\* blocks handed to state-transition validation, declaring any state root
StateBlocks ==
    {[BaseHeader(p, n, MaxTime) EXCEPT !.Root = r] :
        p \in ParentChoices, n \in 0..MaxNumber, r \in 0..MaxValue}

InitState ==
    /\ stateOf \in [Hashes -> StateValues \cup {NoState}]
    /\ sblock = NoHeader
    /\ sres = NoHeader

CallValidateStateTransitions ==
    \E h \in StateBlocks :
        /\ sblock' = h
        /\ sres' = ValidateStateTransitions(stateOf, h)
        /\ UNCHANGED stateOf
        /\ UNCHANGED exceptState

NextState == CallValidateStateTransitions

InitSpecState == InitState /\ IdleVerify /\ IdleCoord /\ IdleBatch /\ IdleNet /\ IdleProof /\ IdleConvert /\ IdleInbox /\ IdleNode /\ IdleMesh

SpecState == InitSpecState /\ [][NextState]_vars

(***************************************************************************)
(* Properties of state transitions.                                        *)
(***************************************************************************)
ParentsOf(h) == {h.ParentHashes[i] : i \in Slots} \ {EmptyHash}

\* two parents of the block hold different values of the key
Conflict(db, h) ==
    \E a \in ParentsOf(h), b \in ParentsOf(h) :
        db[a] # NoState /\ db[b] # NoState /\ db[a].k # db[b].k

\* the lowest hash among the parents
LowestParent(h) == CHOOSE a \in ParentsOf(h) : \A b \in ParentsOf(h) : a <= b

\* C7: when two parents of a block wrote different values to the same key,
\* the state the block is validated over holds the value of the parent with
\* the lower hash.
C7_ConflictResolvesToLowerHash ==
    (sres # NoHeader /\ sres.err = Nil /\ Conflict(stateOf, sblock)) =>
        /\ sres.baseState # NoState
        /\ sres.baseState.k = stateOf[LowestParent(sblock)].k

\* a conflict in which the lower-hash parent is in the first slot
ConflictReached ==
    /\ sres # NoHeader
    /\ sres.err = Nil
    /\ Conflict(stateOf, sblock)
    /\ sblock.ParentHashes[1] = LowestParent(sblock)

(***************************************************************************)
(* Hex mesh protocol (HexMeshProtocol): connections are offered to         *)
(* AddPeer, which performs the handshake, enters the peer in the peer      *)
(* table and starts its handler; the handler removes the peer when it      *)
(* exits; the heartbeat goroutine sweeps the request tables of the peers   *)
(* in the table on every tick until quitCh is closed.                      *)
(***************************************************************************)
\* connections offered to AddPeer
MaxConns == 2
\* requests registered per peer
MaxRequests == 1
\* the clock runs for MaxTicks heartbeat intervals
MaxTicks == 3

\* RequestTimeout = 30 // Seconds
RequestTimeout == 30
\* HeartbeatInterval = 15 // Seconds
HeartbeatInterval == 15
\* DefaultHexMeshConfig: NetworkID: 1337
LocalNetworkID == 1337
\* MainnetConfig: cfg.NetworkID = 1
MainnetNetworkID == 1

Conns == 1..MaxConns
NoConn == 0
NodeIds == {"a", "b"}
ReqIds == 1..MaxRequests
NetworkIDs == {LocalNetworkID, MainnetNetworkID}
\* positions as decoded from status and neighbor-update messages: the
\* struct carries the S the sender wrote
PeerPositions == {NewHexCoordinate(1, 0), [NewHexCoordinate(1, 0) EXCEPT !.S = 0]}

\* what peer.rw.ReadMsg() yields during the handshake
NoReply == [kind |-> "none", NetworkID |-> 0, Position |-> Origin]

Replies ==
    {[kind |-> k, NetworkID |-> 0, Position |-> Origin] :
        k \in {"read error", "other message", "undecodable"}}
        \cup {[kind |-> "status", NetworkID |-> n, Position |-> p] :
                n \in NetworkIDs, p \in PeerPositions}

\* a connection not yet offered, and the HexPeer AddPeer builds for it
FreshConn(id) ==
    [id |-> id, pc |-> "new", err |-> Nil, reply |-> NoReply, position |-> Origin,
     distance |-> 0, isNeighbor |-> FALSE, open |-> TRUE]

NoRequest == [issued |-> FALSE, pending |-> FALSE, Timestamp |-> 0, closes |-> 0]

\* handshake without the network id comparison
handshake_AnyNetwork(networkID, localPosition, sent, reply) ==
    LET failed(e) == [err |-> e, position |-> Origin, distance |-> 0, isNeighbor |-> FALSE] IN
    IF ~sent THEN failed("write error")
    ELSE IF reply.kind = "read error" THEN failed("read error")
    ELSE IF reply.kind = "other message" THEN failed("expected status message")
    ELSE IF reply.kind = "undecodable" THEN failed("decode error")
    ELSE [err |-> Nil, position |-> reply.Position,
          distance |-> Distance(localPosition, reply.Position),
          isNeighbor |-> Distance(localPosition, reply.Position) = 1]

\* handshake: send the local status, read the peer's, validate it
handshake(networkID, localPosition, sent, reply) ==
    LET failed(e) == [err |-> e, position |-> Origin, distance |-> 0, isNeighbor |-> FALSE] IN
    IF ~sent THEN failed("write error")
    ELSE IF reply.kind = "read error" THEN failed("read error")
    ELSE IF reply.kind = "other message" THEN failed("expected status message")
    ELSE IF reply.kind = "undecodable" THEN failed("decode error")
    ELSE IF reply.NetworkID # networkID THEN failed("network ID mismatch")
    ELSE [err |-> Nil, position |-> reply.Position,
          distance |-> Distance(localPosition, reply.Position),
          isNeighbor |-> Distance(localPosition, reply.Position) = 1]

\* a removal that empties the table
RemovePeer_Everyone(table, peerID) == [n \in NodeIds |-> NoConn]

\* delete(hmp.peers, peerID)
RemovePeer(table, peerID) == [table EXCEPT ![peerID] = NoConn]

InTable(table, c) == \E n \in NodeIds : table[n] = c

\* cleanupStaleRequests: for the peers in the table, close the response
\* channel of every request older than the timeout and delete its entry
cleanupStaleRequests(table, rq, nowUnix) ==
    [c \in Conns |->
        IF ~InTable(table, c) THEN rq[c]
        ELSE [i \in ReqIds |->
                IF rq[c][i].pending /\ nowUnix - rq[c][i].Timestamp > RequestTimeout
                THEN [rq[c][i] EXCEPT !.pending = FALSE, !.closes = @ + 1]
                ELSE rq[c][i]]]

InitNet ==
    /\ conns \in {f \in [Conns -> {FreshConn(n) : n \in NodeIds}] : f[1].id = "a"}
    /\ peers = [n \in NodeIds |-> NoConn]
    /\ reqs = [c \in Conns |-> [i \in ReqIds |-> NoRequest]]
    /\ clock = 0
    /\ tick = FALSE
    /\ quit = FALSE
    /\ hb = "off"

\* AddPeer up to the handshake's read: the HexPeer is built and the local
\* status is sent; a failed send makes AddPeer return the error
AddPeerSend(c) ==
    /\ conns[c].pc = "new"
    /\ \E sent \in BOOLEAN :
        conns' = [conns EXCEPT ![c] =
            IF sent THEN [@ EXCEPT !.pc = "handshake"]
            ELSE [@ EXCEPT !.pc = "rejected", !.open = FALSE,
                           !.err = handshake(LocalNetworkID, Origin, FALSE, NoReply).err]]
    /\ UNCHANGED <<peers, reqs, clock, tick, quit, hb>>
    /\ UNCHANGED exceptNet

\* AddPeer from the handshake's read on: the reply is validated; on an error
\* AddPeer returns it (the protocol's Run returns it and the connection is
\* dropped); otherwise the peer enters the table and its handler is started
AddPeerFinish(c) ==
    /\ conns[c].pc = "handshake"
    /\ \E reply \in Replies :
        LET r == handshake(LocalNetworkID, Origin, TRUE, reply) IN
        IF r.err # Nil
        THEN /\ conns' = [conns EXCEPT ![c] =
                    [@ EXCEPT !.pc = "rejected", !.open = FALSE, !.err = r.err,
                              !.reply = reply]]
             /\ UNCHANGED peers
        ELSE /\ conns' = [conns EXCEPT ![c] =
                    [@ EXCEPT !.pc = "active", !.reply = reply, !.position = r.position,
                              !.distance = r.distance, !.isNeighbor = r.isNeighbor]]
             /\ peers' = [peers EXCEPT ![conns[c].id] = c]
    /\ UNCHANGED <<reqs, clock, tick, quit, hb>>
    /\ UNCHANGED exceptNet

\* handlePeer returns (ReadMsg or handleMessage failed): the deferred
\* RemovePeer(peer.id) and Disconnect run
HandlerExit(c) ==
    /\ conns[c].pc = "active"
    /\ peers' = RemovePeer(peers, conns[c].id)
    /\ conns' = [conns EXCEPT ![c] =
                    [@ EXCEPT !.pc = "removed", !.open = FALSE, !.err = "read error"]]
    /\ UNCHANGED <<reqs, clock, tick, quit, hb>>
    /\ UNCHANGED exceptNet

\* handlePeer reads a neighbor update, which handleNeighborUpdate decodes
\* and stores: position, distance to the local position, neighbor flag
HandleNeighborUpdate(c) ==
    /\ conns[c].pc = "active"
    /\ conns[c].open
    /\ \E pos \in PeerPositions :
        conns' = [conns EXCEPT ![c] =
            [@ EXCEPT !.position = pos,
                      !.distance = Distance(Origin, pos),
                      !.isNeighbor = Distance(Origin, pos) = 1]]
    /\ UNCHANGED <<peers, reqs, clock, tick, quit, hb>>
    /\ UNCHANGED exceptNet

\* Start: the heartbeat goroutine is started
Start ==
    /\ hb = "off"
    /\ hb' = "running"
    /\ UNCHANGED <<conns, peers, reqs, clock, tick, quit>>
    /\ UNCHANGED exceptNet

\* Stop: close(quitCh) and disconnect every peer in the table
Stop ==
    /\ ~quit
    /\ quit' = TRUE
    /\ conns' = [c \in Conns |->
                    IF InTable(peers, c) THEN [conns[c] EXCEPT !.open = FALSE] ELSE conns[c]]
    /\ UNCHANGED <<peers, reqs, clock, tick, hb>>
    /\ UNCHANGED exceptNet

\* HeartbeatInterval seconds pass; the running loop's ticker fires.  The
\* clock reading stops at MaxTicks intervals while the ticker goes on
Advance ==
    /\ clock' = IF clock < MaxTicks * HeartbeatInterval
                THEN clock + HeartbeatInterval ELSE clock
    /\ tick' = (tick \/ hb = "running")
    /\ UNCHANGED <<conns, peers, reqs, quit, hb>>
    /\ UNCHANGED exceptNet

\* heartbeatLoop, case <-ticker.C: sendHeartbeats and cleanupStaleRequests
HeartbeatTick ==
    /\ hb = "running"
    /\ tick
    /\ tick' = FALSE
    /\ reqs' = cleanupStaleRequests(peers, reqs, clock)
    /\ UNCHANGED <<conns, peers, clock, quit, hb>>
    /\ UNCHANGED exceptNet

\* heartbeatLoop, case <-hmp.quitCh: return
HeartbeatQuit ==
    /\ hb = "running"
    /\ quit
    /\ hb' = "stopped"
    /\ tick' = FALSE
    /\ UNCHANGED <<conns, peers, reqs, clock, quit>>
    /\ UNCHANGED exceptNet

\* a request is sent to a peer of the table and entered in its request
\* table under the next request id, stamped with the current time
SendRequest(c) ==
    /\ conns[c].pc = "active"
    /\ peers[conns[c].id] = c
    /\ \E i \in ReqIds :
        /\ ~reqs[c][i].issued
        /\ \A j \in ReqIds : j < i => reqs[c][j].issued
        /\ reqs' = [reqs EXCEPT ![c][i] =
                        [issued |-> TRUE, pending |-> TRUE, Timestamp |-> clock, closes |-> 0]]
    /\ UNCHANGED <<conns, peers, clock, tick, quit, hb>>
    /\ UNCHANGED exceptNet

NextNet ==
    \/ \E c \in Conns : AddPeerSend(c)
    \/ \E c \in Conns : AddPeerFinish(c)
    \/ \E c \in Conns : HandlerExit(c)
    \/ \E c \in Conns : HandleNeighborUpdate(c)
    \/ \E c \in Conns : SendRequest(c)
    \/ Start
    \/ Stop
    \/ Advance
    \/ HeartbeatTick
    \/ HeartbeatQuit

InitSpecNet == InitNet /\ IdleVerify /\ IdleCoord /\ IdleBatch /\ IdleState /\ IdleProof /\ IdleConvert /\ IdleInbox /\ IdleNode /\ IdleMesh

SpecNet == InitSpecNet /\ [][NextNet]_vars

\* the peer lifecycle alone: the actions that write the connections and the
\* peer table; no request is registered and the clock stands still
NextPeers ==
    \/ \E c \in Conns : AddPeerSend(c)
    \/ \E c \in Conns : AddPeerFinish(c)
    \/ \E c \in Conns : HandlerExit(c)
    \/ \E c \in Conns : HandleNeighborUpdate(c)
    \/ Start
    \/ Stop
    \/ HeartbeatQuit

SpecPeers == InitSpecNet /\ [][NextPeers]_vars

\* time passes, and the heartbeat goroutine, once started, is scheduled
SpecNetLive ==
    /\ InitSpecNet
    /\ [][NextNet]_vars
    /\ WF_vars(Start)
    /\ WF_vars(Advance)
    /\ WF_vars(HeartbeatTick)

(***************************************************************************)
(* Properties of the hex mesh protocol.                                    *)
(***************************************************************************)
\* the peer's handshake status carried another network id than the local one
Mismatched(c) ==
    conns[c].reply.kind = "status" /\ conns[c].reply.NetworkID # LocalNetworkID

\* C8: a peer whose handshake status carries a network id different from the
\* local one ends disconnected with AddPeer returning an error; it is never
\* active: not in the peer table, and no handler is started for it.
C8_MismatchNeverActive ==
    \A c \in Conns :
        Mismatched(c) =>
            /\ conns[c].pc = "rejected"
            /\ conns[c].err = "network ID mismatch"
            /\ ~conns[c].open
            /\ ~InTable(peers, c)

\* a mismatched peer was rejected while a matching peer is active
C8_Witness ==
    \E c \in Conns, d \in Conns :
        /\ Mismatched(c)
        /\ conns[c].pc = "rejected"
        /\ conns[d].pc = "active"
        /\ conns[d].id = conns[c].id

\* the request has been pending for more than RequestTimeout
Expired(c, i) ==
    reqs[c][i].issued /\ clock - reqs[c][i].Timestamp > RequestTimeout

\* C9: every pending request not answered within RequestTimeout is resolved
\* as a failure exactly once, under every interleaving of heartbeat sweeps
\* and peer removal while the protocol is not stopped: its response channel
\* is closed and its entry removed at least once, and never more than once.
C9_ExpiredResolvedExactlyOnce ==
    \A c \in Conns : \A i \in ReqIds :
        /\ [](reqs[c][i].closes <= 1)
        /\ ([]~quit) => (Expired(c, i) ~> (reqs[c][i].closes = 1 /\ ~reqs[c][i].pending))

(***************************************************************************)
(* Further properties of the coordinate arithmetic.                        *)
(***************************************************************************)
\* C11: Distance(a, b) == Distance(b, a) for all coordinates a and b, and
\* Distance(a, a) == 0.
C11_DistanceSymmetric ==
    cop = "Distance" =>
        /\ cres[1] = Distance(cb, ca)
        /\ ca = cb => cres[1] = 0

\* a distance between two different coordinates has been computed
C11_Witness == cop = "Distance" /\ ca # cb /\ cres[1] > 1 /\ IsCube(ca) /\ IsCube(cb)

(***************************************************************************)
(* Further properties of the hex mesh protocol.                            *)
(***************************************************************************)
\* C12: every HexCoordinate the protocol holds for a peer (taken from its
\* status or from a neighbor update) satisfies q + r + s == 0.
C12_PeerPositionsAreCube == \A c \in Conns : IsCube(conns[c].position)

(***************************************************************************)
(* HexaProof.Hash (package core): the memoized hash of a proof.            *)
(***************************************************************************)
\* common.Hash{}: the value of ProofHash before any hash is stored
ZeroProofHash == [zero |-> TRUE]

\* sha256 of a byte string, taken as injective: the digest is the string
sha256(bytes) == [sum |-> bytes]

\* binary.BigEndian.PutUint64 into 8 bytes, for timestamps below 256
BigEndian8(t) == [i \in 1..8 |-> IF i = 8 THEN t ELSE 0]

RECURSIVE WriteAll(_, _)
\* the bytes of parts[i..Len(parts)] as consecutive Write calls leave them
WriteAll(parts, i) ==
    IF i > Len(parts) THEN <<>> ELSE parts[i] \o WriteAll(parts, i + 1)

\* what Hash writes to the hasher, in order; an address is abbreviated to one
\* byte
ProofBytes(p) ==
    WriteAll(p.NeighborSignatures, 1)
        \o p.StateProof
        \o p.MeshProof
        \o BigEndian8(p.Timestamp)
        \o WriteAll([i \in 1..Len(p.ValidatorSet) |-> <<p.ValidatorSet[i]>>], 1)

\* Hash recomputing on every call
HexaProofHash_NoMemo(p) ==
    LET h == sha256(ProofBytes(p))
    IN  [proof |-> [p EXCEPT !.ProofHash = h], hash |-> h]

\* Hash: the stored ProofHash when it is not zero, else the digest, which is
\* stored; the result is the proof as the call leaves it and the value returned
HexaProofHash(p) ==
    IF p.ProofHash # ZeroProofHash
    THEN [proof |-> p, hash |-> p.ProofHash]
    ELSE LET h == sha256(ProofBytes(p))
         IN  [proof |-> [p EXCEPT !.ProofHash = h], hash |-> h]

\* byte strings of the variable-length fields
ByteStrings == {<<>>, <<7>>}

\* proofs as a caller builds them: two signature slots, the state proof, the
\* mesh proof, the timestamp and the validator set vary; no hash stored
ProofChoices ==
    {[NeighborSignatures |-> <<s1, s2, <<>>, <<>>, <<>>, <<>>>>,
      StateProof |-> sp,
      MeshProof |-> mp,
      Timestamp |-> t,
      ValidatorSet |-> vs,
      ProofHash |-> ZeroProofHash] :
        s1 \in ByteStrings, s2 \in ByteStrings, sp \in ByteStrings,
        mp \in ByteStrings, t \in {1, 2}, vs \in {<<>>, <<9>>}}

\* the fields of a proof other than the stored hash
Fields(p) == [p EXCEPT !.ProofHash = ZeroProofHash]

InitProof ==
    /\ hp \in ProofChoices
    /\ pop = "none"
    /\ pres = NoHeader

\* proof.Hash()
CallHash ==
    /\ hp' = HexaProofHash(hp).proof
    /\ pres' = HexaProofHash(hp).hash
    /\ pop' = "Hash"
    /\ UNCHANGED exceptProof

\* the caller assigns fields of the proof; ProofHash is not among them
ModifyFields ==
    /\ \E q \in ProofChoices :
        /\ q # Fields(hp)
        /\ hp' = [q EXCEPT !.ProofHash = hp.ProofHash]
    /\ pop' = "modify"
    /\ pres' = NoHeader
    /\ UNCHANGED exceptProof

\* proof.ProofHash = common.Hash{}
ResetHash ==
    /\ hp.ProofHash # ZeroProofHash
    /\ hp' = [hp EXCEPT !.ProofHash = ZeroProofHash]
    /\ pop' = "reset"
    /\ pres' = NoHeader
    /\ UNCHANGED exceptProof

NextProof == CallHash \/ ModifyFields \/ ResetHash

InitSpecProof ==
    InitProof /\ IdleVerify /\ IdleCoord /\ IdleBatch /\ IdleState /\ IdleNet /\ IdleConvert /\ IdleInbox /\ IdleNode /\ IdleMesh

SpecProof == InitSpecProof /\ [][NextProof]_vars

\* the proofs that differ from p in one field (one signature slot, the state
\* proof, the mesh proof, the timestamp or the validator set)
OneFieldApart(p) ==
    {q \in ProofChoices :
        \/ /\ Cardinality({i \in Slots :
                   q.NeighborSignatures[i] # p.NeighborSignatures[i]}) = 1
           /\ [q EXCEPT !.NeighborSignatures = p.NeighborSignatures] = Fields(p)
        \/ q # Fields(p) /\ [q EXCEPT !.StateProof = p.StateProof] = Fields(p)
        \/ q # Fields(p) /\ [q EXCEPT !.MeshProof = p.MeshProof] = Fields(p)
        \/ q # Fields(p) /\ [q EXCEPT !.Timestamp = p.Timestamp] = Fields(p)
        \/ q # Fields(p) /\ [q EXCEPT !.ValidatorSet = p.ValidatorSet] = Fields(p)}

\* a call of Hash returned the stored hash, which is not the zero hash; a
\* hash computed on a proof without a stored hash depends on every field
HashReturned ==
    pop = "Hash" =>
        /\ pres = hp.ProofHash
        /\ pres # ZeroProofHash
        /\ \A q \in OneFieldApart(hp) :
               HexaProofHash(q).hash # HexaProofHash(Fields(hp)).hash

\* one step: a second call in a row returns what the first returned, and the
\* stored hash changes only by a reset or by a call that found none stored
HashStep ==
    /\ pop = "Hash" /\ pop' = "Hash" => pres' = pres
    /\ hp'.ProofHash # hp.ProofHash =>
           \/ pop' = "reset" /\ hp'.ProofHash = ZeroProofHash
           \/ /\ pop' = "Hash"
              /\ hp.ProofHash = ZeroProofHash
              /\ hp'.ProofHash = HexaProofHash(Fields(hp)).hash

\* C13: HexaProof.Hash() is the hash over all of the proof's fields: repeated
\* calls on an unmodified proof return the same non-empty value, and the
\* memoized value is never changed implicitly and is recomputed only after an
\* explicit reset of the cached hash.
C13_HashMemoized == []HashReturned /\ [][HashStep]_vars

\* Hash returned a hash stored before the fields were modified
C13_Witness ==
    /\ pop = "Hash"
    /\ pres # HexaProofHash(Fields(hp)).hash
    /\ OneFieldApart(hp) # {}

\* the shape the genesis constructor gives a header
GenesisShaped(h) ==
    /\ h.Number = 0
    /\ h.NeighborCount = 0
    /\ h.HexPosition = Origin
    /\ h.ParentHashes = EmptyParents

\* C14: the genesis block built by HexGenesisBlock has number 0, neighbor
\* count 0, position (0,0,0) and six empty parent hashes; every genesis
\* header (number 0) the engine accepts has neighbor count 0 and position
\* origin, and every accepted non-genesis header has neighbor count >= 1.
C14_GenesisShape ==
    /\ \A t \in Times : GenesisShaped(HexGenesisHeader(t))
    /\ Finished("verifyHexHeader") /\ verdict.err = Nil =>
        /\ hdr.Number = 0 => hdr.NeighborCount = 0 /\ hdr.HexPosition = Origin
        /\ hdr.Number > 0 => hdr.NeighborCount >= 1

(***************************************************************************)
(* HexHeader.ToEthHeader (package core).                                   *)
(***************************************************************************)
\* headers handed to ToEthHeader: the parent layouts of the candidates and
\* parents in slots 3 and 5, with the state root and the gas limit varying
ConvertHeaders ==
    {[BaseHeader(p, n, MaxTime) EXCEPT !.Root = r, !.GasLimit = g] :
        p \in ParentChoices
                \cup {[i \in Slots |-> IF i = 3 THEN a ELSE IF i = 5 THEN b ELSE EmptyHash] :
                        a \in Hashes, b \in Hashes},
        n \in 0..MaxNumber, r \in {0, 1}, g \in {0, GenesisGasLimit}}
        \cup {HexGenesisHeader(t) : t \in Times}

InitConvert ==
    /\ hexh \in ConvertHeaders
    /\ ethh = NoHeader

\* h.ToEthHeader(): the receiver is only read
CallToEthHeader ==
    /\ ethh = NoHeader
    /\ ethh' = ToEthHeader(hexh)
    /\ hexh' = hexh
    /\ UNCHANGED exceptConvert

\* the caller goes on to another header
NextHeader ==
    /\ ethh # NoHeader
    /\ hexh' \in ConvertHeaders
    /\ ethh' = NoHeader
    /\ UNCHANGED exceptConvert

NextConvert == CallToEthHeader \/ NextHeader

InitSpecConvert ==
    InitConvert /\ IdleVerify /\ IdleCoord /\ IdleBatch /\ IdleState /\ IdleNet /\ IdleProof /\ IdleInbox /\ IdleNode /\ IdleMesh

SpecConvert == InitSpecConvert /\ [][NextConvert]_vars

\* the slots of a header that hold a parent hash
ParentSlots(h) == {j \in Slots : h.ParentHashes[j] # EmptyHash}

\* the header returned has the first non-empty parent (or the zero hash) and
\* the standard fields of the HexHeader
ToEthReturned ==
    ethh # NoHeader =>
        /\ ParentSlots(hexh) = {} => ethh.ParentHash = EmptyHash
        /\ \A j \in ParentSlots(hexh) :
               (\A k \in ParentSlots(hexh) : j <= k)
                   => ethh.ParentHash = hexh.ParentHashes[j]
        /\ ethh.Number = hexh.Number
        /\ ethh.GasLimit = hexh.GasLimit
        /\ ethh.Time = hexh.Time
        /\ ethh.Root = hexh.Root

\* the call does not change the HexHeader
ToEthStep == ethh = NoHeader /\ ethh' # NoHeader => hexh' = hexh

\* C15: ToEthHeader maps a HexHeader to a single-parent header whose
\* ParentHash is the first non-empty entry of ParentHashes in slot order (the
\* zero hash when all six slots are empty) and whose number, gas limit and
\* other standard fields equal those of the HexHeader, leaving the HexHeader
\* unchanged.
C15_ToEthHeaderFirstParent == []ToEthReturned /\ [][ToEthStep]_vars

\* converted: a header with an empty first slot and two different parents
C15_Witness ==
    /\ ethh # NoHeader
    /\ ParentSlots(hexh) = {3, 5}
    /\ hexh.ParentHashes[3] # hexh.ParentHashes[5]
    /\ hexh.GasLimit = GenesisGasLimit

(***************************************************************************)
(* Order of the stages of verifyHexHeader.                                 *)
(***************************************************************************)
StageOrder == <<"structural", "parents", "topology", "neighbors", "timestamp", "proof">>

\* the error each stage's validator gives for the header under validation
StageErr(i) ==
    CASE i = 1 -> validateBasicStructure(hdr).err
      [] i = 2 -> validateParents(ledger, hdr).err
      [] i = 3 -> validateMeshTopology(ledger, hdr).err
      [] i = 4 -> validateNeighborCount(config, hdr).err
      [] i = 5 -> validateTimestamp(ledger, hdr, now).err
      [] i = 6 -> validateHexaProof(ledger, hdr).err

\* the stages the header violates
ViolatedStages == {i \in 1..Len(StageOrder) : StageErr(i) # Nil}

\* C16: header validation runs its six stages strictly in the order
\* structural, parents, topology, neighbor-count policy, timestamp, proof; for
\* a header that violates several stages the error returned is the one of the
\* earliest violated stage, and no later stage is executed after a failure.
C16_StagesInOrder ==
    entry \in {"verifyHexHeader", "VerifyHeader"} =>
        /\ Len(trace) <= Len(StageOrder)
        /\ trace = SubSeq(StageOrder, 1, Len(trace))
        /\ vpc = "done" /\ verdict.err = Nil =>
               ViolatedStages = {} /\ trace = StageOrder
        /\ vpc = "done" /\ verdict.err # Nil =>
               /\ Len(trace) \in ViolatedStages
               /\ \A i \in ViolatedStages : Len(trace) <= i
               /\ verdict.stage = StageOrder[Len(trace)]
               /\ verdict.err = StageErr(Len(trace))

\* rejected: a header that violates an early stage and a later one
C16_Witness ==
    /\ Finished("verifyHexHeader")
    /\ verdict.stage = "parents"
    /\ {2, 5} \subseteq ViolatedStages

(***************************************************************************)
(* The parent stage.                                                       *)
(***************************************************************************)
\* the engine ran the parent stage on the header
ParentStageRan ==
    /\ entry \in {"verifyHexHeader", "VerifyHeader"}
    /\ Len(trace) >= 2

\* every non-empty parent hash resolves to a header with a smaller number at
\* most maxDepthDiff below the candidate's
ParentsKnownAndRecent ==
    \A i \in ParentSlots(hdr) :
        LET parent == GetHeaderByHash(ledger, hdr.ParentHashes[i]) IN
        /\ parent # NoHeader
        /\ parent.Number < hdr.Number
        /\ hdr.Number - parent.Number <= maxDepthDiff

\* C17: a header passes the parent stage only if every non-empty parent hash
\* resolves through the ledger reader to a known header whose number is
\* strictly smaller than the candidate's and at most 10 below it; a header
\* whose parents are all so (difference 10 included) passes the stage.
C17_ParentStage ==
    ParentStageRan => (verdict.stage # "parents" <=> ParentsKnownAndRecent)

\* passed the parent stage: a header exactly maxDepthDiff above its parent
C17_Witness ==
    /\ ParentStageRan
    /\ verdict.stage # "parents"
    /\ \E i \in ParentSlots(hdr) :
           hdr.Number - GetHeaderByHash(ledger, hdr.ParentHashes[i]).Number = maxDepthDiff

\* rejected by the parent stage: a header maxDepthDiff + 1 above its parent
C17_TooOldReached ==
    /\ ParentStageRan
    /\ verdict = [stage |-> "parents", err |-> "parent too old"]
    /\ \E i \in ParentSlots(hdr) :
           /\ GetHeaderByHash(ledger, hdr.ParentHashes[i]) # NoHeader
           /\ hdr.Number - GetHeaderByHash(ledger, hdr.ParentHashes[i]).Number
                  = maxDepthDiff + 1

(***************************************************************************)
(* Growth of the ledger: headers are added once verifyHexHeader accepted   *)
(* them against the ledger as it is.                                       *)
(***************************************************************************)
\* headers offered to the ledger: any parent layout and number, at the two
\* latest times
LedgerCandidates ==
    {BaseHeader(p, n, t) :
        p \in ParentChoices, n \in 0..MaxNumber, t \in {MaxTime - 1, MaxTime}}

InitLedger ==
    /\ ledger = GenesisLedger
    /\ config \in ConfigChoices
    /\ now = MaxTime
    /\ hdr = NoHeader
    /\ entry = "none"
    /\ vpc = "idle"
    /\ verdict = NoVerdict
    /\ lookups = 0
    /\ trace = <<>>

\* a header is verified against the ledger and, when accepted, stored under
\* its hash
AddValidated ==
    \E h \in LedgerCandidates :
        /\ vpc = "idle"
        /\ ledger[HeaderHash(h)] = NoHeader
        /\ verifyHexHeader(ledger, config, h, now).err = Nil
        /\ ledger' = Extend(ledger, h)
        /\ hdr' = h
        /\ UNCHANGED <<config, now, entry, vpc, verdict, lookups, trace>>
        /\ UNCHANGED exceptVerify

NextLedger == AddValidated

InitSpecLedger ==
    InitLedger /\ IdleCoord /\ IdleBatch /\ IdleState /\ IdleNet /\ IdleProof /\ IdleConvert /\ IdleInbox /\ IdleNode /\ IdleMesh

SpecLedger == InitSpecLedger /\ [][NextLedger]_vars

\* the parent edges of the ledger: from a stored header's hash to each of its
\* non-empty parent hashes
ParentEdges(chain) ==
    {<<k, chain[k].ParentHashes[i]>> : k \in Known(chain), i \in Slots}
        \ {<<k, EmptyHash>> : k \in Hashes}

RECURSIVE ReachableIn(_, _, _)
\* the hashes reached from the set by at most n parent edges
ReachableIn(chain, from, n) ==
    IF n = 0 THEN from
    ELSE LET next == from \cup {e[2] : e \in {d \in ParentEdges(chain) : d[1] \in from}}
         IN  ReachableIn(chain, next, n - 1)

\* k lies on a cycle of parent edges
OnCycle(chain, k) ==
    k \in ReachableIn(chain, {e[2] : e \in {d \in ParentEdges(chain) : d[1] = k}},
                      NumHashes)

\* C18: in a ledger that starts with genesis only and grows only by adding
\* headers that passed header validation against the ledger at that moment,
\* every parent edge goes to a known header with a strictly smaller block
\* number, so the parent graph has no cycle of any length.
C18_ParentEdgesDescend ==
    /\ \A e \in ParentEdges(ledger) :
           /\ ledger[e[2]] # NoHeader
           /\ ledger[e[2]].Number < ledger[e[1]].Number
    /\ \A k \in Known(ledger) : ~OnCycle(ledger, k)

\* the ledger holds a chain of two parent edges
C18_Witness ==
    \E e \in ParentEdges(ledger), f \in ParentEdges(ledger) :
        e[2] = f[1] /\ Cardinality(Known(ledger)) = NumHashes

(***************************************************************************)
(* The circular-reference checks of the engine and of the block validator, *)
(* called on a ledger grown from genesis.                                  *)
(***************************************************************************)
\* headers handed to the two checks
CycleCandidates ==
    {BaseHeader(p, n, MaxTime) : p \in ParentChoices, n \in CandidateNumbers}

\* HexaProof.validateMeshTopology(chain, header)
CheckMeshTopology ==
    /\ vpc = "idle"
    /\ \E h \in CycleCandidates :
        LET r == validateMeshTopology(ledger, h) IN
        Returned(h, "validateMeshTopology",
                 [stage |-> IF r.err = Nil THEN "none" ELSE "topology", err |-> r.err])

\* HexBlockValidator.ValidateMeshIntegrity(block)
CheckMeshIntegrity ==
    /\ vpc = "idle"
    /\ \E h \in CycleCandidates :
        Returned(h, "ValidateMeshIntegrity", ValidateMeshIntegrity(ledger, h))

NextCycle == AddValidated \/ CheckMeshTopology \/ CheckMeshIntegrity

SpecCycle == InitSpecLedger /\ [][NextCycle]_vars

\* a resolved parent of the header lists the header's hash among its own six
\* parent slots
TwoHopCycle(chain, h) ==
    \E i \in ParentSlots(h) :
        /\ GetHexHeader(chain, h.ParentHashes[i]) # NoHeader
        /\ \E j \in Slots :
               GetHexHeader(chain, h.ParentHashes[i]).ParentHashes[j] = HeaderHash(h)

\* C19: topology validation rejects a candidate whenever any of its resolved
\* parents lists the candidate's hash in any of that parent's own six parent
\* slots, in both the engine's validateMeshTopology and the block validator's
\* ValidateMeshIntegrity.
C19_TwoHopCycleRejected ==
    (/\ vpc = "done"
     /\ entry \in {"validateMeshTopology", "ValidateMeshIntegrity"}
     /\ TwoHopCycle(ledger, hdr))
        => verdict.err # Nil

\* the block validator's half of C19
MeshIntegrityRejectsCycle ==
    (/\ vpc = "done"
     /\ entry = "ValidateMeshIntegrity"
     /\ TwoHopCycle(ledger, hdr))
        => verdict.err \in {"circular reference detected", "block cannot reference itself"}

\* the block validator rejected a header one of whose parents lists it
MeshIntegrityCycleReached ==
    /\ vpc = "done"
    /\ entry = "ValidateMeshIntegrity"
    /\ TwoHopCycle(ledger, hdr)
    /\ verdict.err = "circular reference detected"

(***************************************************************************)
(* The neighbor-count stage.                                               *)
(***************************************************************************)
\* the engine ran the neighbor-count stage on the header
NeighborStageRan ==
    /\ entry \in {"verifyHexHeader", "VerifyHeader"}
    /\ Len(trace) >= 4

\* C20: the neighbor-count stage rejects a header whose count exceeds the
\* configured MaxNeighbors, and rejects a non-genesis header whose count is
\* below the configured MinNeighbors unless the block's height is lower than
\* MinNeighbors, in which case it is not rejected for having too few parents.
C20_NeighborCountPolicy ==
    NeighborStageRan =>
        /\ hdr.NeighborCount > config.MaxNeighbors => verdict.stage = "neighbors"
        /\ (/\ hdr.NeighborCount <= config.MaxNeighbors
            /\ hdr.NeighborCount < config.MinNeighbors
            /\ hdr.Number >= config.MinNeighbors) => verdict.stage = "neighbors"
        /\ (/\ hdr.NeighborCount <= config.MaxNeighbors
            /\ hdr.Number < config.MinNeighbors) => verdict.stage # "neighbors"

\* what the stage does: the only height exempt from MinNeighbors is 0
NeighborCountAsCoded ==
    NeighborStageRan =>
        (verdict.stage = "neighbors" <=>
            \/ hdr.NeighborCount > config.MaxNeighbors
            \/ hdr.Number > 0 /\ hdr.NeighborCount < config.MinNeighbors)

\* rejected for too few parents: a block at a height below MinNeighbors
LowHeightRejectedReached ==
    /\ NeighborStageRan
    /\ verdict = [stage |-> "neighbors", err |-> "insufficient neighbors for finality"]
    /\ hdr.Number > 0
    /\ hdr.Number < config.MinNeighbors

(***************************************************************************)
(* The timestamp stage.                                                    *)
(***************************************************************************)
\* the engine ran the timestamp stage on the header
TimestampStageRan ==
    /\ entry \in {"verifyHexHeader", "VerifyHeader"}
    /\ Len(trace) >= 5

\* C21: the timestamp stage accepts a header only if its time is strictly
\* greater than the time of every resolved parent and at most now + 15
\* seconds, and accepts every such header; a header whose time equals its
\* latest parent's time is rejected.
C21_TimestampStage ==
    TimestampStageRan =>
        (verdict.stage # "timestamp" <=>
            /\ \A i \in ParentSlots(hdr) :
                   GetHeaderByHash(ledger, hdr.ParentHashes[i]) # NoHeader
                       => hdr.Time > GetHeaderByHash(ledger, hdr.ParentHashes[i]).Time
            /\ hdr.Time <= now + maxFuture)

\* rejected by the timestamp stage: a header as old as its latest parent
C21_Witness ==
    /\ TimestampStageRan
    /\ verdict = [stage |-> "timestamp", err |-> "invalid timestamp"]
    /\ ParentSlots(hdr) # {}
    /\ hdr.Time = MaxOf(ResolvedParentTimes(ledger, hdr))

\* passed the timestamp stage: a header exactly maxFuture ahead of now
FutureLimitReached ==
    /\ TimestampStageRan
    /\ verdict.stage # "timestamp"
    /\ hdr.Time = now + maxFuture

(***************************************************************************)
(* The proof stage.                                                        *)
(***************************************************************************)
\* the engine ran the proof stage on the header
ProofStageRan ==
    /\ entry \in {"verifyHexHeader", "VerifyHeader"}
    /\ Len(trace) = Len(StageOrder)

\* C22: the proof stage rejects a header whose proof timestamp is unset (0)
\* or smaller than the header time, and rejects a header whose number of
\* non-empty neighbor-signature slots is smaller than its declared neighbor
\* count.
C22_ProofStage ==
    ProofStageRan =>
        /\ hdr.HexProof.Timestamp = 0
               => verdict = [stage |-> "proof", err |-> "missing proof timestamp"]
        /\ hdr.HexProof.Timestamp < hdr.Time => verdict.stage = "proof"
        /\ NonZero(hdr.HexProof.NeighborSignatures) < hdr.NeighborCount
               => verdict.stage = "proof"

\* rejected by the proof stage: a timestamped proof with too few signatures
C22_Witness ==
    /\ ProofStageRan
    /\ verdict = [stage |-> "proof", err |-> "insufficient signatures"]
    /\ hdr.HexProof.Timestamp >= hdr.Time
    /\ NonZero(hdr.HexProof.NeighborSignatures) < hdr.NeighborCount

\* rejected by the proof stage: a proof older than its header
ProofBeforeBlockReached ==
    /\ ProofStageRan
    /\ verdict = [stage |-> "proof", err |-> "proof timestamp before block timestamp"]

\* C23: signature checking in the proof stage is mandatory: no header is
\* accepted with a declared parent (a non-empty parent slot) whose own
\* signature slot is empty or holds a signature that does not verify.
C23_DeclaredParentsSigned ==
    Finished("verifyHexHeader") /\ verdict.err = Nil =>
        \A i \in ParentSlots(hdr) : hdr.HexProof.NeighborSignatures[i] # 0

(***************************************************************************)
(* Abort of a VerifyHeaders batch.                                         *)
(***************************************************************************)
\* the number of results the worker has sent so far
Delivered == Len(results) + Len(received)

\* a step taken with the abort signal raised sends no result and starts no
\* verification
AbortedStep ==
    aborted =>
        /\ Len(results') + Len(received') = Delivered
        /\ wpc = "loop" => wpc' # "verify"

\* C24: once the caller raises the abort signal of a VerifyHeaders batch, no
\* further per-header result is delivered on the results channel and no new
\* header verification is started, for every interleaving of the abort with
\* the worker's send of a result.
C24_NoResultAfterAbort == [][AbortedStep]_vars

\* the part of C24 that the outer select gives: no verification starts once
\* the abort signal is raised
NoVerificationAfterAbort == [][aborted /\ wpc = "loop" => wpc' # "verify"]_vars

(***************************************************************************)
(* Declared state root of a block.                                         *)
(***************************************************************************)
\* every parent of the block has a state and all of them are the same state
ParentsAgree(db, h) ==
    /\ ParentsOf(h) # {}
    /\ \A a \in ParentsOf(h) : db[a] # NoState
    /\ ~Conflict(db, h)

\* the state all parents of the block agree on
AgreedState(db, h) == db[CHOOSE a \in ParentsOf(h) : TRUE]

\* C25: state-transition validation rejects, with a state-root-mismatch
\* error, every block whose declared state root differs from the root of the
\* state merged from its parents (here: parents that all hold the same
\* state, so that the merged state is that state).
C25_WrongRootRejected ==
    (/\ sres # NoHeader
     /\ ParentsAgree(stateOf, sblock)
     /\ sblock.Root # IntermediateRoot(AgreedState(stateOf, sblock)))
        => sres.err = "state root mismatch"

(***************************************************************************)
(* Order of the parents in state reconciliation.                           *)
(***************************************************************************)
\* the blocks that hold the same parents as h in other slots and are equal
\* to h in every other field
Permuted(h) ==
    {g \in StateBlocks :
        /\ ParentsOf(g) = ParentsOf(h)
        /\ [g EXCEPT !.ParentHashes = h.ParentHashes] = h}

\* C26: state reconciliation takes its base state from the first parent in
\* an order of the parents themselves (distance from the origin, then parent
\* hash), so the base state of a block is the same for every permutation of
\* its parents over the six header slots.
C26_BaseStateIgnoresSlotOrder ==
    (sres # NoHeader /\ sres.err = Nil) =>
        \A g \in Permuted(sblock) :
            ValidateStateTransitions(stateOf, g).baseState = sres.baseState

(***************************************************************************)
(* A peer that does not answer the handshake.                              *)
(***************************************************************************)
\* AddPeer is inside handshake, blocked in peer.rw.ReadMsg()
Handshaking(c) == conns[c].pc = "handshake"

\* C27: a peer that never answers the status message does not stay in the
\* handshake forever: as time passes the handshake ends, AddPeer returns and
\* the peer is not in the peer table.
C27_HandshakeEnds ==
    \A c \in Conns : Handshaking(c) ~> (~Handshaking(c) /\ ~InTable(peers, c))

(***************************************************************************)
(* The peer's reader: handlePeer reads a message, handleMessage routes it  *)
(* by its code, and the handler's error ends the reader.  Inbound blocks   *)
(* and headers go to blockCh and headerCh, which messageHandler drains.    *)
(***************************************************************************)
\* make(chan *hexcore.HexBlock, 100), make(chan *hexcore.HexHeader, 100)
QueueCapacity == 100

\* the inbound messages a run delivers
MaxMessages == 1

\* what a registered block or header handler returns
HandlerResults == {Nil, "parent block not found"}

\* NewHexMeshProtocol: empty channels, no handler registered
NoHandlers == [block |-> FALSE, header |-> FALSE]

\* a send that puts the item in front of the items of the channel
TrySend_InFront(ch, item) == IF Len(ch) < QueueCapacity THEN <<item>> \o ch ELSE ch

\* a send that appends whatever the length of the channel
TrySend_Unbounded(ch, item) == Append(ch, item)

\* select { case ch <- item: default: }: the send succeeds while the
\* channel's buffer has room, and is given up otherwise
TrySend(ch, item) == IF Len(ch) < QueueCapacity THEN Append(ch, item) ELSE ch

\* the send took the default branch
Dropped(ch, item) == TrySend(ch, item) = ch

\* handlePeer returns err: the deferred RemovePeer(peer.id) and Disconnect
ReaderExit(c, e) ==
    /\ peers' = RemovePeer(peers, conns[c].id)
    /\ conns' = [conns EXCEPT ![c] =
                    [@ EXCEPT !.pc = "removed", !.open = FALSE, !.err = e]]

\* handlePeer's loop goes on to the next ReadMsg
ReaderContinues == UNCHANGED <<conns, peers>>

\* the reader of connection c has a message to read
Reading(c) ==
    /\ conns[c].pc = "active"
    /\ conns[c].open
    /\ budget > 0

\* one more arrival decides what the reader does next
AfterHandler(c, e) == IF e # Nil THEN ReaderExit(c, e) ELSE ReaderContinues

\* handleHexBlock: decode, offer to blockCh, call the registered handler
HandleHexBlock(c) ==
    /\ Reading(c)
    /\ budget' = budget - 1
    /\ \E decodable \in BOOLEAN, result \in HandlerResults :
        IF ~decodable
        THEN /\ ReaderExit(c, "decode error")
             /\ UNCHANGED <<blockCh, dropped>>
        ELSE /\ blockCh' = TrySend(blockCh, budget)
             /\ dropped' = IF Dropped(blockCh, budget) THEN dropped + 1 ELSE dropped
             /\ AfterHandler(c, IF handlers.block THEN result ELSE Nil)
    /\ UNCHANGED <<headerCh, handlers, reqs, clock, tick, quit, hb>>
    /\ UNCHANGED exceptNetInbox

\* handleHexHeader: decode, offer to headerCh, call the registered handler
HandleHexHeader(c) ==
    /\ Reading(c)
    /\ budget' = budget - 1
    /\ \E decodable \in BOOLEAN, result \in HandlerResults :
        IF ~decodable
        THEN /\ ReaderExit(c, "decode error")
             /\ UNCHANGED <<headerCh, dropped>>
        ELSE /\ headerCh' = TrySend(headerCh, budget)
             /\ dropped' = IF Dropped(headerCh, budget) THEN dropped + 1 ELSE dropped
             /\ AfterHandler(c, IF handlers.header THEN result ELSE Nil)
    /\ UNCHANGED <<blockCh, handlers, reqs, clock, tick, quit, hb>>
    /\ UNCHANGED exceptNetInbox

\* handleBlockRequest, handleHeaderRequest, handleHexProof, handleMeshState:
\* decode; what follows writes nothing of the protocol's state
HandleRequest(c) ==
    /\ Reading(c)
    /\ budget' = budget - 1
    /\ \E decodable \in BOOLEAN :
        AfterHandler(c, IF decodable THEN Nil ELSE "decode error")
    /\ UNCHANGED <<blockCh, headerCh, handlers, dropped, reqs, clock, tick, quit, hb>>
    /\ UNCHANGED exceptNetInbox

\* handleMessage, default case
HandleUnknownCode(c) ==
    /\ Reading(c)
    /\ budget' = budget - 1
    /\ ReaderExit(c, "unknown message code")
    /\ UNCHANGED <<blockCh, headerCh, handlers, dropped, reqs, clock, tick, quit, hb>>
    /\ UNCHANGED exceptNetInbox

SetBlockHandler ==
    /\ ~handlers.block
    /\ handlers' = [handlers EXCEPT !.block = TRUE]
    /\ UNCHANGED <<blockCh, headerCh, budget, dropped>>
    /\ UNCHANGED exceptInbox

SetHeaderHandler ==
    /\ ~handlers.header
    /\ handlers' = [handlers EXCEPT !.header = TRUE]
    /\ UNCHANGED <<blockCh, headerCh, budget, dropped>>
    /\ UNCHANGED exceptInbox

\* messageHandler, started by Start, receives from blockCh or headerCh
\* (the item is logged and processed no further)
MessageHandlerBlock ==
    /\ hb # "off"
    /\ blockCh # <<>>
    /\ blockCh' = Tail(blockCh)
    /\ UNCHANGED <<headerCh, handlers, budget, dropped>>
    /\ UNCHANGED exceptInbox

MessageHandlerHeader ==
    /\ hb # "off"
    /\ headerCh # <<>>
    /\ headerCh' = Tail(headerCh)
    /\ UNCHANGED <<blockCh, handlers, budget, dropped>>
    /\ UNCHANGED exceptInbox

InitInbox ==
    /\ blockCh = <<>>
    /\ headerCh = <<>>
    /\ handlers = NoHandlers
    /\ budget = MaxMessages
    /\ dropped = 0

InitSpecReader ==
    InitNet /\ InitInbox /\ IdleVerify /\ IdleCoord /\ IdleBatch /\ IdleState
            /\ IdleProof /\ IdleConvert /\ IdleNode /\ IdleMesh

NextReader ==
    \/ \E c \in Conns : AddPeerSend(c)
    \/ \E c \in Conns : AddPeerFinish(c)
    \/ \E c \in Conns : HandlerExit(c)
    \/ \E c \in Conns : HandleHexBlock(c)
    \/ \E c \in Conns : HandleHexHeader(c)
    \/ \E c \in Conns : HandleRequest(c)
    \/ \E c \in Conns : HandleUnknownCode(c)
    \/ SetBlockHandler
    \/ SetHeaderHandler

SpecReader == InitSpecReader /\ [][NextReader]_vars

(***************************************************************************)
(* A fault on one peer's inbound stream.                                   *)
(***************************************************************************)
\* what handleMessage returns for a message it cannot decode or route
StreamFaults == {"decode error", "unknown message code"}

\* in this step the reader of c ends on a fault of its inbound stream
FaultEnds(c) ==
    /\ conns[c].pc = "active"
    /\ conns'[c].pc = "removed"
    /\ conns'[c].err \in StreamFaults

FaultIsolatedStep ==
    \A c \in Conns :
        FaultEnds(c) =>
            /\ ~conns'[c].open
            /\ peers'[conns[c].id] = NoConn
            /\ \A n \in NodeIds \ {conns[c].id} : peers'[n] = peers[n]
            /\ \A d \in Conns \ {c} : conns'[d] = conns[d]
            /\ quit' = quit
            /\ hb' = hb

\* C28: a message that cannot be decoded, or whose code is unknown, ends the
\* handler of the peer that sent it, disconnects that peer and deletes its
\* entry from the peer table; the table entries and the handlers of all
\* other peers are as they were, and the protocol is not stopped.
C28_FaultIsolated == [][FaultIsolatedStep]_vars

\* the reader of one peer ended on a stream fault while another peer is
\* active and in the table, and the protocol has not been stopped
C28_Witness ==
    \E c, d \in Conns :
        /\ conns[c].pc = "removed"
        /\ conns[c].err \in StreamFaults
        /\ conns[d].pc = "active"
        /\ conns[d].id # conns[c].id
        /\ peers[conns[d].id] = d
        /\ peers[conns[c].id] = NoConn
        /\ ~quit

(***************************************************************************)
(* Validation errors of the registered handlers.                           *)
(***************************************************************************)
\* the errors of the network stage: a failed handshake, a failed read, a
\* message that cannot be decoded or routed
NetworkErrors ==
    {"write error", "read error", "expected status message", "decode error",
     "network ID mismatch"} \cup StreamFaults

\* AddPeer returned an error for c, or the handler of c has returned
Disconnected(c) == conns[c].pc \in {"rejected", "removed"}

\* C29: an error that the registered block or header handler returns for an
\* inbound item (an unknown parent, say) does not end the peer connection:
\* the peer stays active and in the peer table, and every peer that was
\* disconnected was disconnected for a network error.
C29_ValidationNotFatal ==
    \A c \in Conns : Disconnected(c) => conns[c].err \in NetworkErrors

(***************************************************************************)
(* The inbound queues at their capacity.                                   *)
(***************************************************************************)
\* a channel one item short of its capacity: the items that arrived while
\* nothing was received from it
NearlyFull == [i \in 1..(QueueCapacity - 1) |-> 0]

\* the protocol was started and one peer was added; the channels are as
\* NewHexMeshProtocol made them, or one of them holds the items that were
\* never received
InitQueue ==
    /\ conns = [c \in Conns |->
                    IF c = 1
                    THEN [FreshConn("a") EXCEPT
                            !.pc = "active",
                            !.reply = [kind |-> "status", NetworkID |-> LocalNetworkID,
                                       Position |-> NewHexCoordinate(1, 0)],
                            !.position = NewHexCoordinate(1, 0),
                            !.distance = 1,
                            !.isNeighbor = TRUE]
                    ELSE FreshConn("b")]
    /\ peers = [n \in NodeIds |-> IF n = "a" THEN 1 ELSE NoConn]
    /\ reqs = [c \in Conns |-> [i \in ReqIds |-> NoRequest]]
    /\ clock = 0
    /\ tick = FALSE
    /\ quit = FALSE
    /\ hb = "running"
    /\ blockCh \in {<<>>, NearlyFull}
    /\ headerCh \in {<<>>, NearlyFull}
    /\ blockCh = <<>> \/ headerCh = <<>>
    /\ handlers = NoHandlers
    /\ budget = MaxMessages + 2
    /\ dropped = 0

InitSpecQueue ==
    InitQueue /\ IdleVerify /\ IdleCoord /\ IdleBatch /\ IdleState /\ IdleProof
              /\ IdleConvert /\ IdleNode /\ IdleMesh

NextQueue ==
    \/ \E c \in Conns : HandleHexBlock(c)
    \/ \E c \in Conns : HandleHexHeader(c)
    \/ SetBlockHandler
    \/ SetHeaderHandler
    \/ MessageHandlerBlock
    \/ MessageHandlerHeader

SpecQueue == InitSpecQueue /\ [][NextQueue]_vars

\* the reader of c goes on to its next read, or it ended on the error that
\* the registered handler returned for the item
ReaderProceeds(c) ==
    \/ conns'[c] = conns[c]
    \/ /\ conns'[c].pc = "removed"
       /\ conns'[c].err \in HandlerResults \ {Nil}

\* an item that was decoded is offered to channel ch: with room it becomes
\* the last item, without room it is dropped, the drop is counted and the
\* items of the channel stay as they are
Offered(ch, chNext) ==
    IF Len(ch) < QueueCapacity
    THEN /\ Len(chNext) = Len(ch) + 1
         /\ SubSeq(chNext, 1, Len(ch)) = ch
         /\ chNext[Len(chNext)] = budget
         /\ dropped' = dropped
    ELSE /\ chNext = ch
         /\ dropped' = dropped + 1

QueueStep ==
    /\ Len(blockCh') <= QueueCapacity
    /\ Len(headerCh') <= QueueCapacity
    /\ \A c \in Conns :
        /\ (HandleHexBlock(c) /\ conns'[c].err # "decode error") =>
                Offered(blockCh, blockCh') /\ ReaderProceeds(c)
        /\ (HandleHexHeader(c) /\ conns'[c].err # "decode error") =>
                Offered(headerCh, headerCh') /\ ReaderProceeds(c)

\* C30: inbound blocks and headers go to queues of capacity 100 by a send
\* that never waits: a full queue drops the new item and the drop is
\* logged, the queued items stay, no queue grows beyond its capacity, and
\* the peer's reader goes on whether or not the queue is ever drained.
C30_BoundedQueues == [][QueueStep]_vars

\* a block was dropped at a full block queue, nothing was ever received
\* from the queue, and the peer's reader is at its next read
C30_Witness ==
    /\ dropped > 0
    /\ Len(blockCh) = QueueCapacity
    /\ SubSeq(blockCh, 1, QueueCapacity - 1) = NearlyFull
    /\ \E c \in Conns : Reading(c)

(***************************************************************************)
(* The requests of a peer that shut down.                                  *)
(***************************************************************************)
\* the handler of c has returned and RemovePeer has run for it
ShutDown(c) == conns[c].pc = "removed"

\* C34: when a peer shuts down (its handler exits and it is removed from the
\* peer table) every request still pending in its request table is failed:
\* a removed peer has no request that is still waiting.
C34_ShutdownFailsPending ==
    \A c \in Conns : ShutDown(c) => \A i \in ReqIds : ~reqs[c][i].pending

(***************************************************************************)
(* The engine's VerifyHeader under the default configuration.              *)
(***************************************************************************)
\* the stages before the proof stage
EarlyStages == {"structural", "parents", "topology", "neighbors"}

\* what C36 says of a finished call under the default configuration, with
\* the errors a number-0 header may get
DefaultEngineRejects(genesisErrors) ==
    config = DefaultHexaProofConfig =>
        /\ Finished("VerifyHeader") =>
            /\ verdict.err # Nil
            /\ hdr.Number = 0 =>
                /\ verdict.stage = "structural"
                /\ verdict.err \in genesisErrors
            /\ hdr.Number > 0 => verdict.stage \in EarlyStages
        /\ Finished("ValidateHexHeader") =>
            /\ verdict.err # Nil
            /\ verdict.stage \in {"engine " \o st : st \in EarlyStages}

\* C36 as stated: with the default configuration (MinNeighbors = 3) the
\* engine's VerifyHeader returns an error for every standard header and
\* every ledger: the converted header has NeighborCount 1, so a number-0
\* header fails the genesis rule and every other header fails at the
\* neighbor-count stage or before it; ValidateHexHeader fails as well.
C36_DefaultEngineRejectsAll ==
    DefaultEngineRejects({"genesis block must have zero neighbors"})

\* C36 amended: as above, but a number-0 header fails the structural stage
\* either by the genesis rule (non-zero ParentHash) or, when its ParentHash
\* is zero, by the neighbor-count mismatch that is checked before it.
C36_DefaultEngineRejectsAllAmended ==
    /\ DefaultEngineRejects({"genesis block must have zero neighbors",
                             "neighbor count mismatch"})
    /\ (config = DefaultHexaProofConfig /\ Finished("VerifyHeader") /\ hdr.Number = 0) =>
            (verdict.err = "neighbor count mismatch" <=> hdr.ParentHashes[1] = EmptyHash)

\* VerifyHeader has rejected a header on top of a known parent for its
\* neighbor count, under the default configuration
C36_Witness ==
    /\ config = DefaultHexaProofConfig
    /\ Finished("VerifyHeader")
    /\ hdr.Number > 0
    /\ hdr.ParentHashes[1] # EmptyHash
    /\ GetHeaderByHash(ledger, hdr.ParentHashes[1]) # NoHeader
    /\ verdict.stage = "neighbors"
    /\ verdict.err = "insufficient neighbors for finality"

(***************************************************************************)
(* Termination of the VerifyHeaders goroutine.                             *)
(***************************************************************************)
\* the goroutine is scheduled; the caller may or may not abort or receive
Worker ==
    WorkerSelect \/ WorkerVerify \/ WorkerSend \/ WorkerAbortAtSend \/ WorkerExit

SpecBatchLive == InitSpecBatch /\ [][NextBatch]_vars /\ WF_vars(Worker)

\* the results channel is closed in this step
Closes == ~closed /\ closed'

\* C37: the VerifyHeaders goroutine always terminates and closes the results
\* channel, whether or not the caller aborts or receives: the channel's
\* buffer has room for every send, no more than len(headers) results are
\* delivered, and the channel is closed once, by the goroutine's last step.
C37_WorkerTerminates ==
    /\ [](wpc = "send" => Len(results) < Len(batch))
    /\ [](Len(results) + Len(received) <= Len(batch))
    /\ [][(closed => closed') /\ (Closes => wpc = "exit" /\ wpc' = "done")]_vars
    /\ <>[](wpc = "done" /\ closed)

\* the goroutine is done and the channel closed with every result of a full
\* batch still in the buffer: the caller neither aborted nor received
C37_Witness ==
    /\ wpc = "done"
    /\ closed
    /\ ~aborted
    /\ received = <<>>
    /\ Len(batch) = MaxBatch
    /\ Len(results) = Len(batch)

(***************************************************************************)
(* The peer table and the running handlers.                                *)
(***************************************************************************)
\* a handlePeer goroutine is running for node id n
HandlerRunning(n) == \E c \in Conns : conns[c].id = n /\ conns[c].pc = "active"

\* C38: the peer table has an entry for a peer id exactly when a handler is
\* running for that id; when the same id is added twice and the handler of
\* the older connection exits, the entry of the newer connection, whose
\* handler is still running, stays in the table.
C38_TableMatchesHandlers ==
    \A n \in NodeIds : peers[n] # NoConn <=> HandlerRunning(n)

(***************************************************************************)
(* Adjacency by Neighbors and by Distance.                                 *)
(***************************************************************************)
\* b is one of the six values Neighbors(a) returns
InNeighbors(a, b) == \E k \in Slots : Neighbors(a)[k] = b

\* C39: for coordinates a and b with q + r + s = 0, b is among Neighbors(a)
\* exactly when Distance(a, b) = 1, and then a is among Neighbors(b); and
\* Distance(a, b) = 0 only for a = b.  So the direct-neighbor test of the
\* network (distance 1) and the adjacency test of the validator (membership
\* in Neighbors) agree.
C39_NeighborsIffDistanceOne ==
    /\ (cop = "Distance" /\ IsCube(ca) /\ IsCube(cb)) =>
            /\ cres[1] = 1 <=> InNeighbors(ca, cb)
            /\ cres[1] = 1 => InNeighbors(cb, ca)
            /\ cres[1] = 0 => ca = cb
    /\ (cop = "Neighbors" /\ IsCube(ca)) =>
            \A b \in {x \in CoordValues : IsCube(x)} :
                (\E k \in Slots : cres[k] = b) <=> Distance(ca, b) = 1

\* Distance returned 1 for two distinct cube coordinates away from the origin
C39_Witness ==
    /\ cop = "Distance"
    /\ IsCube(ca)
    /\ IsCube(cb)
    /\ ca # Origin
    /\ cb # Origin
    /\ cres = <<1>>

(***************************************************************************)
(* Node configuration (package config): the presets and Config.Validate.   *)
(* A Config is a record of the fields Validate reads.                      *)
(***************************************************************************)
\* largest value a caller writes to a numeric field
MaxSetting == 7

DefaultConfig ==
    [MaxNeighbors |-> 6, MinNeighbors |-> 3, RequiredSigners |-> 3,
     MiningEnabled |-> FALSE, Threads |-> 1]

ValidatorConfig == [DefaultConfig EXCEPT !.MiningEnabled = TRUE, !.MinNeighbors = 4]

LightConfig ==
    [DefaultConfig EXCEPT !.MaxNeighbors = 2, !.MinNeighbors = 1, !.MiningEnabled = FALSE]

TestnetConfig == DefaultConfig

MainnetConfig == [DefaultConfig EXCEPT !.MinNeighbors = 4]

Presets ==
    [DefaultConfig |-> DefaultConfig, ValidatorConfig |-> ValidatorConfig,
     LightConfig |-> LightConfig, TestnetConfig |-> TestnetConfig,
     MainnetConfig |-> MainnetConfig]

PresetNames == DOMAIN Presets

\* Config.Validate
Validate(c) ==
    IF c.MaxNeighbors > 6 THEN "maxneighbors cannot exceed 6"
    ELSE IF c.MinNeighbors > c.MaxNeighbors THEN "minneighbors cannot exceed maxneighbors"
    ELSE IF c.MinNeighbors < 1 THEN "minneighbors must be at least 1"
    ELSE IF c.RequiredSigners > c.MaxNeighbors
        THEN "requiredsigners cannot exceed maxneighbors"
    ELSE IF c.MiningEnabled /\ c.Threads < 1 THEN "mining threads must be at least 1"
    ELSE Nil

Unchecked == "unchecked"

\* cfg := DefaultConfig()
InitNode ==
    /\ nodecfg = DefaultConfig
    /\ origin = "DefaultConfig"
    /\ verr = Unchecked

\* one of the five constructors is called
BuildPreset ==
    \E p \in PresetNames :
        /\ nodecfg' = Presets[p]
        /\ origin' = p
        /\ verr' = Unchecked
        /\ UNCHANGED exceptNode

\* the caller writes an exported field of the Config it holds
SetField ==
    /\ \E f \in {"MaxNeighbors", "MinNeighbors", "RequiredSigners", "Threads"},
          v \in 0..MaxSetting :
        /\ nodecfg[f] # v
        /\ nodecfg' = [nodecfg EXCEPT ![f] = v]
    /\ origin' = "edited"
    /\ verr' = Unchecked
    /\ UNCHANGED exceptNode

SetMining ==
    /\ nodecfg' = [nodecfg EXCEPT !.MiningEnabled = ~@]
    /\ origin' = "edited"
    /\ verr' = Unchecked
    /\ UNCHANGED exceptNode

\* err := cfg.Validate()
CallValidate ==
    /\ verr = Unchecked
    /\ verr' = Validate(nodecfg)
    /\ UNCHANGED <<nodecfg, origin>>
    /\ UNCHANGED exceptNode

NextNode ==
    \/ BuildPreset
    \/ SetField
    \/ SetMining
    \/ CallValidate

InitSpecNode ==
    InitNode /\ IdleVerify /\ IdleCoord /\ IdleBatch /\ IdleState /\ IdleNet
             /\ IdleProof /\ IdleConvert /\ IdleInbox /\ IdleMesh

SpecNode == InitSpecNode /\ [][NextNode]_vars

\* C40: every configuration preset (DefaultConfig, ValidatorConfig,
\* LightConfig, TestnetConfig, MainnetConfig) passes Config.Validate, which
\* requires MaxNeighbors <= 6, 1 <= MinNeighbors <= MaxNeighbors and
\* RequiredSigners <= MaxNeighbors.
C40_PresetsValidate ==
    (origin \in PresetNames /\ verr # Unchecked) => verr = Nil

\* what does hold: Validate returns nil exactly for the configurations
\* within the limits, and every preset but LightConfig is one of them
ValidateMeansWithinLimits ==
    verr # Unchecked =>
        /\ verr = Nil <=>
            /\ nodecfg.MaxNeighbors <= 6
            /\ 1 <= nodecfg.MinNeighbors
            /\ nodecfg.MinNeighbors <= nodecfg.MaxNeighbors
            /\ nodecfg.RequiredSigners <= nodecfg.MaxNeighbors
            /\ nodecfg.MiningEnabled => nodecfg.Threads >= 1
        /\ origin \in PresetNames \ {"LightConfig"} => verr = Nil

(***************************************************************************)
(* Order of the items of one peer.                                         *)
(***************************************************************************)
\* item x was sent by the peer before item y: an item carries the number of
\* messages that were still to come when it arrived, and the items the
\* channel held at the start carry 0
SentBefore(x, y) == x = 0 \/ (y # 0 /\ x > y)

\* the channel holds its items in the order the peer sent them (SentBefore
\* is transitive, so consecutive items are enough)
InSendOrder(ch) == \A i \in 1..(Len(ch) - 1) : SentBefore(ch[i], ch[i + 1])

\* a step that shortens the channel takes its oldest item
TakesOldest(ch, chNext) == Len(chNext) < Len(ch) => chNext = Tail(ch)

OrderStep ==
    /\ InSendOrder(blockCh')
    /\ InSendOrder(headerCh')
    /\ TakesOldest(blockCh, blockCh')
    /\ TakesOldest(headerCh, headerCh')

FloodRadius == 3

\* positions the local node is given, and positions peers declare
LocalPositions == {Origin, NewHexCoordinate(3, 0)}
MeshPositions == {NewHexCoordinate(1, 0), NewHexCoordinate(4, 0)}

Unlocked == [readers |-> {}, writer |-> "none"]

NoBroadcast ==
    [op |-> "none", pc |-> "idle", todo |-> {}, cur |-> NoConn, sent |-> {}, failed |-> {}]

NoUpdate == [pc |-> "idle", d |-> 0]

NoSetPosition == [pc |-> "idle", todo |-> {}]

\* a HexPeer after a handshake that declared position pos
ActivePeer(id, pos) ==
    [FreshConn(id) EXCEPT
        !.pc = "active",
        !.reply = [kind |-> "status", NetworkID |-> LocalNetworkID, Position |-> pos],
        !.position = pos,
        !.distance = Distance(Origin, pos),
        !.isNeighbor = Distance(Origin, pos) = 1]

\* the protocol was started and peers a and b were added, each with one
\* connection; further connections have not been offered
InitMesh ==
    /\ \E pa, pb \in MeshPositions :
        conns = [c \in Conns |->
                    IF c = 1 THEN ActivePeer("a", pa)
                    ELSE IF c = 2 THEN ActivePeer("b", pb)
                    ELSE FreshConn("b")]
    /\ peers = [n \in NodeIds |-> IF n = "a" THEN 1 ELSE 2]
    /\ reqs = [c \in Conns |-> [i \in ReqIds |-> NoRequest]]
    /\ clock = 0
    /\ tick = FALSE
    /\ quit = FALSE
    /\ hb = "running"
    /\ localPos = Origin
    /\ peersMu = Unlocked
    /\ bc = NoBroadcast
    /\ nu = [c \in Conns |-> NoUpdate]
    /\ slp = NoSetPosition

TableConns == {c \in Conns : InTable(peers, c)}

\* the condition of the loop body
Wanted(op, peer) ==
    IF op = "BroadcastHexBlock"
    THEN peer.isNeighbor \/ peer.distance <= FloodRadius
    ELSE TRUE

\* hmp.peersMu.RLock(); defer hmp.peersMu.RUnlock()
BroadcastBegin ==
    /\ bc.pc \in {"idle", "done"}
    /\ peersMu.writer = "none"
    /\ \E op \in {"BroadcastHexBlock", "BroadcastHexHeader"} :
        bc' = [NoBroadcast EXCEPT !.op = op, !.pc = "range", !.todo = TableConns]
    /\ peersMu' = [peersMu EXCEPT !.readers = @ \cup {"broadcast"}]
    /\ UNCHANGED <<localPos, nu, slp>>
    /\ UNCHANGED netVars
    /\ UNCHANGED exceptNetMesh

\* for _, peer := range hmp.peers: the next peer, in the map's order; the
\* task enters p2p.Send for a peer the condition lets through
BroadcastVisit ==
    /\ bc.pc = "range"
    /\ \E c \in bc.todo :
        bc' = IF Wanted(bc.op, conns[c])
              THEN [bc EXCEPT !.todo = @ \ {c}, !.pc = "sending", !.cur = c]
              ELSE [bc EXCEPT !.todo = @ \ {c}]
    /\ UNCHANGED <<localPos, peersMu, nu, slp>>
    /\ UNCHANGED netVars
    /\ UNCHANGED exceptNetMesh

\* p2p.Send returns; an error is logged and the loop goes on
BroadcastSent ==
    /\ bc.pc = "sending"
    /\ \E ok \in BOOLEAN :
        bc' = IF ok
              THEN [bc EXCEPT !.pc = "range", !.cur = NoConn, !.sent = @ \cup {bc.cur}]
              ELSE [bc EXCEPT !.pc = "range", !.cur = NoConn, !.failed = @ \cup {bc.cur}]
    /\ UNCHANGED <<localPos, peersMu, nu, slp>>
    /\ UNCHANGED netVars
    /\ UNCHANGED exceptNetMesh

\* the loop ends and the deferred RUnlock runs
BroadcastEnd ==
    /\ bc.pc = "range"
    /\ bc.todo = {}
    /\ bc' = [bc EXCEPT !.pc = "done"]
    /\ peersMu' = [peersMu EXCEPT !.readers = @ \ {"broadcast"}]
    /\ UNCHANGED <<localPos, nu, slp>>
    /\ UNCHANGED netVars
    /\ UNCHANGED exceptNetMesh

\* SetLocalPosition: hmp.localPosition = pos, before the lock is taken
SetLocalPositionWrite ==
    /\ slp.pc = "idle"
    /\ \E pos \in LocalPositions \ {localPos} : localPos' = pos
    /\ slp' = [slp EXCEPT !.pc = "lock"]
    /\ UNCHANGED <<peersMu, bc, nu>>
    /\ UNCHANGED netVars
    /\ UNCHANGED exceptNetMesh

\* hmp.peersMu.Lock()
SetLocalPositionLock ==
    /\ slp.pc = "lock"
    /\ peersMu = Unlocked
    /\ peersMu' = [peersMu EXCEPT !.writer = "SetLocalPosition"]
    /\ slp' = [pc |-> "range", todo |-> TableConns]
    /\ UNCHANGED <<localPos, bc, nu>>
    /\ UNCHANGED netVars
    /\ UNCHANGED exceptNetMesh

\* the loop body: peer.distance and peer.isNeighbor from peer.position
SetLocalPositionUpdate ==
    /\ slp.pc = "range"
    /\ \E c \in slp.todo :
        /\ conns' = [conns EXCEPT ![c] =
                        [@ EXCEPT !.distance = Distance(localPos, conns[c].position),
                                  !.isNeighbor = Distance(localPos, conns[c].position) = 1]]
        /\ slp' = [slp EXCEPT !.todo = @ \ {c}]
    /\ UNCHANGED <<localPos, peersMu, bc, nu>>
    /\ UNCHANGED <<peers, reqs, clock, tick, quit, hb>>
    /\ UNCHANGED exceptNetMesh

\* hmp.peersMu.Unlock()
SetLocalPositionUnlock ==
    /\ slp.pc = "range"
    /\ slp.todo = {}
    /\ peersMu' = Unlocked
    /\ slp' = NoSetPosition
    /\ UNCHANGED <<localPos, bc, nu>>
    /\ UNCHANGED netVars
    /\ UNCHANGED exceptNetMesh

\* the handler of c is between two messages
MeshReading(c) == conns[c].pc = "active" /\ conns[c].open /\ nu[c].pc = "idle"

\* handleNeighborUpdate: peer.position = update.Position
NeighborUpdatePosition(c) ==
    /\ MeshReading(c)
    /\ \E pos \in MeshPositions \ {conns[c].position} :
        conns' = [conns EXCEPT ![c] = [@ EXCEPT !.position = pos]]
    /\ nu' = [nu EXCEPT ![c] = [pc |-> "read", d |-> 0]]
    /\ UNCHANGED <<localPos, peersMu, bc, slp>>
    /\ UNCHANGED <<peers, reqs, clock, tick, quit, hb>>
    /\ UNCHANGED exceptNetMesh

\* hmp.localPosition.Distance(update.Position) is evaluated
NeighborUpdateRead(c) ==
    /\ nu[c].pc = "read"
    /\ nu' = [nu EXCEPT ![c] = [pc |-> "distance", d |-> Distance(localPos, conns[c].position)]]
    /\ UNCHANGED <<localPos, peersMu, bc, slp>>
    /\ UNCHANGED netVars
    /\ UNCHANGED exceptNetMesh

\* peer.distance = the value just computed
NeighborUpdateDistance(c) ==
    /\ nu[c].pc = "distance"
    /\ conns' = [conns EXCEPT ![c] = [@ EXCEPT !.distance = nu[c].d]]
    /\ nu' = [nu EXCEPT ![c] = [pc |-> "neighbor", d |-> 0]]
    /\ UNCHANGED <<localPos, peersMu, bc, slp>>
    /\ UNCHANGED <<peers, reqs, clock, tick, quit, hb>>
    /\ UNCHANGED exceptNetMesh

\* peer.isNeighbor = peer.distance == 1
NeighborUpdateNeighbor(c) ==
    /\ nu[c].pc = "neighbor"
    /\ conns' = [conns EXCEPT ![c] = [@ EXCEPT !.isNeighbor = conns[c].distance = 1]]
    /\ nu' = [nu EXCEPT ![c] = NoUpdate]
    /\ UNCHANGED <<localPos, peersMu, bc, slp>>
    /\ UNCHANGED <<peers, reqs, clock, tick, quit, hb>>
    /\ UNCHANGED exceptNetMesh

\* handlePeer returns on a read error; RemovePeer takes peersMu.Lock
HandlerExitLocked(c) ==
    /\ nu[c].pc = "idle"
    /\ peersMu = Unlocked
    /\ HandlerExit(c)

NextMesh ==
    \/ BroadcastBegin
    \/ BroadcastVisit
    \/ BroadcastSent
    \/ BroadcastEnd
    \/ SetLocalPositionWrite
    \/ SetLocalPositionLock
    \/ SetLocalPositionUpdate
    \/ SetLocalPositionUnlock
    \/ \E c \in Conns : NeighborUpdatePosition(c)
    \/ \E c \in Conns : NeighborUpdateRead(c)
    \/ \E c \in Conns : NeighborUpdateDistance(c)
    \/ \E c \in Conns : NeighborUpdateNeighbor(c)
    \/ \E c \in Conns : HandlerExitLocked(c)

InitSpecMesh ==
    InitMesh /\ IdleVerify /\ IdleCoord /\ IdleBatch /\ IdleState /\ IdleProof
             /\ IdleConvert /\ IdleInbox /\ IdleNode

SpecMesh == InitSpecMesh /\ [][NextMesh]_vars

(***************************************************************************)
(* Who a broadcast is sent to.                                             *)
(***************************************************************************)
\* in this step the loop of the broadcast comes to peer c
Visits(c) == bc.pc = "range" /\ c \in bc.todo /\ bc'.todo = bc.todo \ {c}

\* and enters p2p.Send for it
Attempts(c) == bc'.pc = "sending" /\ bc'.cur = c

BroadcastStep ==
    /\ \A c \in Conns :
        Visits(c) =>
            (Attempts(c) <=> \/ bc.op = "BroadcastHexHeader"
                             \/ conns[c].distance <= FloodRadius)
    /\ (bc.pc = "sending" /\ bc'.failed # bc.failed) =>
            bc'.pc = "range" /\ bc'.todo = bc.todo

\* C31: BroadcastHexBlock sends the block to exactly the peers of the table
\* at distance 3 or less (the direct neighbors among them) and to no peer
\* at a distance above 3; BroadcastHexHeader sends the header to every peer
\* of the table; a failed send to one peer does not end the loop.
C31_BroadcastRecipients == [][BroadcastStep]_vars

(***************************************************************************)
(* The distance and neighbor flag of the peers.                            *)
(***************************************************************************)
\* no neighbor-update handler and no SetLocalPosition call is in progress
Quiescent == slp.pc = "idle" /\ \A c \in Conns : nu[c].pc = "idle"

\* C32: for every active peer, whenever no handshake, neighbor-update
\* handler or SetLocalPosition call is in progress, peer.distance is
\* Distance(localPosition, peer.position) and peer.isNeighbor is
\* (peer.distance == 1), after every interleaving of these operations.
C32_DistanceCurrent ==
    Quiescent =>
        \A c \in Conns :
            conns[c].pc = "active" =>
                /\ conns[c].distance = Distance(localPos, conns[c].position)
                /\ conns[c].isNeighbor = (conns[c].distance = 1)

(***************************************************************************)
(* The peer-table lock and network I/O.                                    *)
(***************************************************************************)
\* the broadcast task is inside p2p.Send
InSend == bc.pc = "sending"

\* C33: no operation holds the peer-table lock, shared or exclusive, while
\* it performs a network send, read or disconnect: a task that is inside a
\* send does not hold peersMu.
C33_NoLockAcrossSend == InSend => "broadcast" \notin peersMu.readers

====
